---- MODULE Spec2Model ----
(***************************************************************************)
(* A model of AnatomyDPS.py: the in-memory store (PandasDataStore), the    *)
(* stateful log parser (LogParser) in streaming and batch mode, and the    *)
(* batch worker (BackgroundLoader._load_worker).                           *)
(*                                                                         *)
(* A log line is modelled by the features the regular expressions of the   *)
(* source react to: whether it starts with a [HH:MM:SS] prefix (and the    *)
(* time of day it carries, in seconds), and what its body is.  The         *)
(* outcome of each pattern on a line is computed from these features.      *)
(* Absolute timestamps are seconds: day * 86400 + time of day.             *)
(***************************************************************************)
EXTENDS Integers, Sequences, FiniteSets, TLC

VARIABLES
    data_store,     \* the PandasDataStore shared by every parser
    parser,         \* the streaming LogParser (DamageParserGUI.parser)
    line,           \* the line most recently handed to a parse_line call
    file_position,  \* LogMonitor: number of lines consumed by the monitor loop
    loader,         \* BackgroundLoader worker: its locals and its own LogParser
    file,           \* the content of the file imported in batch mode
    api,            \* the last direct call on the store and what it returned
    gui             \* DamageParserGUI: its flags, its LogMonitor and the monitor threads

vars == <<data_store, parser, line, file_position, loader, file, api, gui>>

----------------------------------------------------------------------------
(* Python values *)

NoId == 0              \* None where an identifier is expected (ids start at 1)
NoTime == -1           \* None where a datetime is expected
NoName == "None"       \* None where a string is expected
NoDate == -1           \* None where a log date is expected
Rejected == -1         \* the sentinel insert_damage_event returns
Raised == -2           \* no value: the call raised ValueError instead of returning

SecondsPerDay == 86400
zone_debounce_seconds == 30
BATCH_SIZE == 1000
SKIP_ZONES == {"ChooseCharacter", "ReconnectToServer", "LoadingScene"}

----------------------------------------------------------------------------
(* Bounds and input alphabets *)

MaxLines == 4          \* lines the monitor loop reads
MaxFileLen == 4        \* lines of an imported file
MaxRuns == 2           \* batch imports of the file
MaxCalls == 4          \* direct calls on the store
MaxSteps == 3          \* lines and calls of an interleaved run

Characters == {"Ann", "Bea"}
Zones == {"AreaA", "AreaB"}
Players == {"Al", "Bo"}
Npcs == {<<42, "Wolf">>, <<43, "Bear">>}
TimesOfDay == {2, 31, 32, 86398}      \* 00:00:02, 00:00:31, 00:00:32, 23:59:58
Today == 7                             \* the day the process runs on
LogDay == 3                            \* the date of the imported file

Max(S) == CHOOSE x \in S : \A y \in S : y <= x

----------------------------------------------------------------------------
(* Lines *)

Line(kind, time, name, num, health, armor) ==
    [kind |-> kind, time |-> time, name |-> name, num |-> num,
     health |-> health, armor |-> armor]

Absent == -1   \* an optional group of a pattern that did not take part

LoginLine(c) == Line("login", NoTime, c, 0, Absent, Absent)
ZoneLine(t, z) == Line("zone", t, z, 0, Absent, Absent)
CorpseLine(t, n) == Line("corpse", t, n[2], n[1], Absent, Absent)
DamageLine(t, p, h, a) == Line("damage", t, p, 0, h, a)
WisdomLine(t, n) == Line("wisdom", t, NoName, n, Absent, Absent)
OtherLine == Line("other", NoTime, NoName, 0, Absent, Absent)

(* TIMESTAMP_PATTERN.match: the time string of the prefix, if there is one *)
TIMESTAMP_PATTERN(l) == l.time

(* CHARACTER_PATTERN.search *)
CHARACTER_PATTERN(l) == l.kind = "login"

(* the texts after LOADING LEVEL that (Area\w+) matches from their start *)
AreaNames == Zones \cup {"AreaForest"}

(* The three zone patterns are anchored at a [HH:MM:SS] prefix and capture
   a name that starts with Area, right after the keyword and one blank. *)
ZONE_PATTERN(l) == l.kind = "zone" /\ l.time # NoTime /\ l.name \in AreaNames

(* CORPSE_PATTERN.search *)
CORPSE_PATTERN(l) == l.kind = "corpse"

(* DAMAGE_PATTERN.match: group 1 is the text before the first colon of the
   line.  On a line with a [HH:MM:SS] prefix the first colon is the one
   inside the prefix, so the pattern matches with group 1 = "[HH" and the
   health and armor groups do not take part (the text after the colon is
   "MM:SS] ..."); the same happens on every such line, whatever its body.
   Without the prefix the pattern matches a damage body and yields its
   fields; a wisdom body or an unrecognized line has no colon. *)
DAMAGE_PATTERN(l) ==
    IF l.time # NoTime
    THEN [matched |-> TRUE, name |-> "[HH", health |-> Absent, armor |-> Absent]
    ELSE IF l.kind = "damage"
    THEN [matched |-> TRUE, name |-> l.name, health |-> l.health, armor |-> l.armor]
    ELSE [matched |-> FALSE, name |-> NoName, health |-> Absent, armor |-> Absent]

(* WISDOM_PATTERN.search *)
WISDOM_PATTERN(l) == l.kind = "wisdom"

----------------------------------------------------------------------------
(* PandasDataStore *)

EmptyDict == [k \in {} |-> NoId]

(* self._events_df_cache: None, or the DataFrame made of the rows the event
   list held when it was built *)
NoCache == [built |-> FALSE, rows |-> <<>>]

(* PandasDataStore.__init__ with the alias file holding the mapping aliases.
   The player and zone DataFrame caches are read by no query and are left
   out. *)
NewStore(aliases) ==
    [players_list |-> <<>>, zones_list |-> <<>>, events_list |-> <<>>,
     wisdom_list |-> <<>>, events_df_cache |-> NoCache,
     player_name_to_id |-> EmptyDict, player_id_to_info |-> EmptyDict,
     zone_id_to_info |-> EmptyDict, aliases |-> aliases,
     next_player_id |-> 1, next_zone_id |-> 1, next_event_id |-> 1]

EmptyStore == NewStore(EmptyDict)

invalidate_events_cache(ds) == [ds EXCEPT !.events_df_cache = NoCache]

(* _get_events_df: the store after the call, its cache built from the event
   list if it was None *)
get_events_df(ds) ==
    IF ds.events_df_cache.built THEN ds
    ELSE [ds EXCEPT !.events_df_cache = [built |-> TRUE, rows |-> ds.events_list]]

(* the store as a query sees it: the rows of the DataFrame _get_events_df
   returns in the place of the event list *)
events_df(ds) == [ds EXCEPT !.events_list = get_events_df(ds).events_df_cache.rows]

(* dict.get: the value under key k, or None *)
dict_get(d, k, none) == IF k \in DOMAIN d THEN d[k] ELSE none

player_name_to_id(ds, name) == dict_get(ds.player_name_to_id, name, NoId)

(* the player record and the index entries made for a new name *)
player_created(ds, name, alias) ==
    [ds EXCEPT !.players_list =
                  Append(@, [player_id |-> ds.next_player_id, original_name |-> name,
                             alias |-> alias]),
               !.player_name_to_id = (name :> ds.next_player_id) @@ @,
               !.player_id_to_info = (ds.next_player_id :> [name |-> name, alias |-> alias]) @@ @,
               !.next_player_id = @ + 1]

(* mutant: a known name gets a second player record *)
get_or_create_player_always_new(ds, name) ==
    [ds |-> player_created(ds, name, dict_get(ds.aliases, name, NoName)),
     ret |-> ds.next_player_id]

get_or_create_player(ds, name) ==
    IF name \in DOMAIN ds.player_name_to_id
    THEN [ds |-> ds, ret |-> ds.player_name_to_id[name]]
    ELSE [ds |-> player_created(ds, name, dict_get(ds.aliases, name, NoName)),
          ret |-> ds.next_player_id]

(* names is the iteration order Python picks for the set of names *)
RECURSIVE get_or_create_players_batch(_, _)
get_or_create_players_batch(ds, names) ==
    IF names = <<>> THEN ds
    ELSE get_or_create_players_batch(get_or_create_player(ds, Head(names)).ds, Tail(names))

(* the index of the most recent open zone of the character, 0 if none *)
open_zone(ds, character_name) ==
    LET open == {i \in 1..Len(ds.zones_list) :
                    /\ ds.zones_list[i].character_name = character_name
                    /\ ds.zones_list[i].left_time = NoTime}
    IN IF open = {} THEN 0 ELSE Max(open)

(* mutant: the zone the character had open is left open *)
create_zone_entry_leaves_open(ds, name, character_name, entered_time, log_date) ==
    LET i == open_zone(ds, character_name)
        zl == ds.zones_list
    IN IF i # 0 /\ zl[i].name = name
       THEN [ds |-> ds, ret |-> zl[i].zone_id]
       ELSE LET zone_dict == [zone_id |-> ds.next_zone_id, name |-> name,
                              character_name |-> character_name,
                              entered_time |-> entered_time, left_time |-> NoTime,
                              log_date |-> log_date]
            IN [ds |-> [ds EXCEPT !.zones_list = Append(zl, zone_dict),
                                  !.next_zone_id = @ + 1],
                ret |-> ds.next_zone_id]

(* mutant: the open zone of the same name is not reused *)
create_zone_entry_always_new(ds, name, character_name, entered_time, log_date) ==
    LET i == open_zone(ds, character_name)
        zl == ds.zones_list
        closed == IF i # 0 THEN [zl EXCEPT ![i].left_time = entered_time] ELSE zl
        zone_dict == [zone_id |-> ds.next_zone_id, name |-> name,
                      character_name |-> character_name,
                      entered_time |-> entered_time, left_time |-> NoTime,
                      log_date |-> log_date]
    IN [ds |-> [ds EXCEPT !.zones_list = Append(closed, zone_dict),
                          !.next_zone_id = @ + 1],
        ret |-> ds.next_zone_id]

(* create_zone_entry: the open zone at index i (if any) gets its left_time;
   zone_id_to_info holds the same dict objects as zones_list *)
zone_closed(ds, i, entered_time) ==
    IF i = 0 THEN ds
    ELSE [ds EXCEPT !.zones_list[i].left_time = entered_time,
                    !.zone_id_to_info =
                        [k \in DOMAIN @ |->
                            IF k = ds.zones_list[i].zone_id
                            THEN [@[k] EXCEPT !.left_time = entered_time] ELSE @[k]]]

zone_opened(ds, zone_dict) ==
    [ds |-> [ds EXCEPT !.zones_list = Append(@, zone_dict),
                       !.zone_id_to_info = (zone_dict.zone_id :> zone_dict) @@ @,
                       !.next_zone_id = @ + 1],
     ret |-> zone_dict.zone_id]

zone_entered(ds, i, name, character_name, entered_time, log_date) ==
    IF i # 0 /\ ds.zones_list[i].name = name
    THEN [ds |-> ds, ret |-> ds.zones_list[i].zone_id]
    ELSE zone_opened(zone_closed(ds, i, entered_time),
                     [zone_id |-> ds.next_zone_id, name |-> name,
                      character_name |-> character_name,
                      entered_time |-> entered_time, left_time |-> NoTime,
                      log_date |-> log_date])

create_zone_entry(ds, name, character_name, entered_time, log_date) ==
    zone_entered(ds, open_zone(ds, character_name), name, character_name,
                 entered_time, log_date)

get_current_zone_id(ds, character_name) ==
    IF open_zone(ds, character_name) = 0 THEN NoId
    ELSE ds.zones_list[open_zone(ds, character_name)].zone_id

event_dict(event_id, zone_id, player_id, e) ==
    [event_id |-> event_id, zone_id |-> zone_id, npc_id |-> e.npc_id,
     npc_name |-> e.npc_name, player_id |-> player_id,
     health_dmg |-> e.health_dmg, armor_dmg |-> e.armor_dmg,
     timestamp |-> e.timestamp, character_name |-> e.character_name]

(* insert_damage_event from its lock on, with the player id it has looked
   up: the event takes the next id and the event cache is invalidated *)
event_appended(ds, event, zone_id, player_id) ==
    [ds EXCEPT !.events_list =
                  Append(@, event_dict(ds.next_event_id, zone_id, player_id, event)),
               !.next_event_id = @ + 1,
               !.events_df_cache = NoCache]

(* mutant: events without damage are stored like the others *)
insert_damage_event_unchecked(ds, event, zone_id) ==
    LET got == get_or_create_player(ds, event.player_name)
    IN [ds |-> event_appended(got.ds, event, zone_id, got.ret),
        ret |-> got.ds.next_event_id]

(* mutant: the insert leaves the event cache as it is *)
insert_damage_event_keeps_cache(ds, event, zone_id) ==
    IF event.health_dmg = 0 /\ event.armor_dmg = 0
    THEN [ds |-> ds, ret |-> Rejected]
    ELSE LET got == get_or_create_player(ds, event.player_name)
         IN [ds |-> [event_appended(got.ds, event, zone_id, got.ret)
                        EXCEPT !.events_df_cache = ds.events_df_cache],
             ret |-> got.ds.next_event_id]

(* mutant: the event counter is left where it was *)
insert_damage_event_same_id(ds, event, zone_id) ==
    IF event.health_dmg = 0 /\ event.armor_dmg = 0
    THEN [ds |-> ds, ret |-> Rejected]
    ELSE LET got == get_or_create_player(ds, event.player_name)
         IN [ds |-> [event_appended(got.ds, event, zone_id, got.ret)
                        EXCEPT !.next_event_id = ds.next_event_id],
             ret |-> got.ds.next_event_id]

insert_damage_event(ds, event, zone_id) ==
    IF event.health_dmg = 0 /\ event.armor_dmg = 0
    THEN [ds |-> ds, ret |-> Rejected]
    ELSE LET got == get_or_create_player(ds, event.player_name)
         IN [ds |-> event_appended(got.ds, event, zone_id, got.ret),
             ret |-> got.ds.next_event_id]

(* the loop of insert_damage_events_batch over the tuples
   <<zone_id, player_id, event>> *)
RECURSIVE batch_appended(_, _)
batch_appended(ds, events) ==
    IF events = <<>> THEN ds
    ELSE batch_appended(
            [ds EXCEPT !.events_list =
                    Append(@, event_dict(ds.next_event_id, Head(events)[1],
                                         Head(events)[2], Head(events)[3])),
                 !.next_event_id = @ + 1],
            Tail(events))

(* insert_damage_events_batch: nothing is done for an empty list; otherwise
   the event cache is invalidated once, after the loop *)
insert_damage_events_batch(ds, events) ==
    IF events = <<>> THEN ds ELSE invalidate_events_cache(batch_appended(ds, events))

event_key(e) == <<e.zone_id, e.npc_id, e.player_id, e.health_dmg, e.armor_dmg>>

get_all_existing_event_keys(ds, log_date) ==
    IF ds.events_list = <<>> THEN {}
    ELSE IF log_date # NoDate
    THEN LET zone_ids == {ds.zones_list[i].zone_id : i \in
                            {j \in 1..Len(ds.zones_list) : ds.zones_list[j].log_date = log_date}}
         IN {event_key(ds.events_list[i]) : i \in
                {j \in 1..Len(ds.events_list) : ds.events_list[j].zone_id \in zone_ids}}
    ELSE {event_key(ds.events_list[i]) : i \in 1..Len(ds.events_list)}

add_wisdom(ds, zone_id, amount) ==
    [ds EXCEPT !.wisdom_list = Append(@, [zone_id |-> zone_id, amount |-> amount])]

(* del d[k] *)
dict_del(d, k) == [j \in DOMAIN d \ {k} |-> d[j]]

(* update_player_alias for a player the store knows: an empty alias is
   stored as None and removes the name from the persisted mapping *)
alias_updated(ds, player_id, original_name, stored) ==
    [ds EXCEPT !.player_id_to_info[player_id].alias = stored,
               !.players_list =
                  [i \in DOMAIN @ |->
                      IF @[i].player_id = player_id THEN [@[i] EXCEPT !.alias = stored]
                      ELSE @[i]],
               !.aliases = IF stored # NoName THEN (original_name :> stored) @@ @
                           ELSE dict_del(@, original_name)]

(* mutant: an alias for an id the store does not know is kept nevertheless *)
update_player_alias_keeps_unknown(ds, player_id, alias) ==
    IF player_id \in DOMAIN ds.player_id_to_info
    THEN alias_updated(ds, player_id, ds.player_id_to_info[player_id].name,
                       IF alias # "" THEN alias ELSE NoName)
    ELSE [ds EXCEPT !.aliases = ("Unknown" :> alias) @@ @]

update_player_alias(ds, player_id, alias) ==
    IF player_id \in DOMAIN ds.player_id_to_info
    THEN alias_updated(ds, player_id, ds.player_id_to_info[player_id].name,
                       IF alias # "" THEN alias ELSE NoName)
    ELSE ds

(* clear_all_data: the statement after the player indices are cleared reads
   self._zone_key_to_id, an attribute no code of the class ever sets, so the
   call ends there with an AttributeError: zone_id_to_info and the three
   counters keep their values *)
(* mutant: the alias mapping is wiped with the rest *)
clear_all_data_wipes_aliases(ds) ==
    [ds |-> [ds EXCEPT !.players_list = <<>>, !.zones_list = <<>>,
                       !.events_list = <<>>, !.wisdom_list = <<>>,
                       !.events_df_cache = NoCache,
                       !.player_name_to_id = EmptyDict,
                       !.player_id_to_info = EmptyDict,
                       !.aliases = EmptyDict],
     raised |-> TRUE]

clear_all_data(ds) ==
    [ds |-> [ds EXCEPT !.players_list = <<>>, !.zones_list = <<>>,
                       !.events_list = <<>>, !.wisdom_list = <<>>,
                       !.events_df_cache = NoCache,
                       !.player_name_to_id = EmptyDict,
                       !.player_id_to_info = EmptyDict],
     raised |-> TRUE]

----------------------------------------------------------------------------
(* LogParser *)

NoZone == [name |-> NoName, entered_time |-> NoTime, character_name |-> NoName]
NoCorpse == [npc_id |-> NoId, npc_name |-> NoName, timestamp |-> NoTime]
NoKeys == [k \in {} |-> NoId]      \* an empty dict

(* LogParser.__init__: current_date is the day the parser is created on *)
NewParser(today) ==
    [current_character |-> NoName, current_zone |-> NoZone, current_zone_id |-> NoId,
     current_date |-> today, last_timestamp |-> NoTime, pending_corpse |-> NoCorpse,
     log_date |-> NoDate, batch_mode |-> FALSE, pending_events |-> <<>>,
     seen_events |-> {}, zones_created |-> NoKeys,
     last_zone_name |-> NoName, last_zone_time |-> NoTime]

(* a log date is modelled by its day number, so strptime is the identity *)
set_log_date(p, date) == [p EXCEPT !.log_date = date, !.current_date = date]

start_batch_mode(p, existing_events) ==
    [p EXCEPT !.batch_mode = TRUE, !.pending_events = <<>>,
              !.seen_events = existing_events, !.zones_created = NoKeys]

(* _flush_batch, the zone of a pending event: the id the event carries, or the
   one cached in zones_created, or the id create_zone_entry returns; st carries
   the store, zones_created, seen_events and events_to_insert *)
zone_created(st, zone_key, made) ==
    [st |-> [st EXCEPT !.ds = made.ds, !.zones_created = (zone_key :> made.ret) @@ @],
     zone_id |-> made.ret]

flush_zone(st, e, zone_key, log_date) ==
    IF e.zone_id # NoId THEN [st |-> st, zone_id |-> e.zone_id]
    ELSE IF zone_key \in DOMAIN st.zones_created /\ st.zones_created[zone_key] # NoId
    THEN [st |-> st, zone_id |-> st.zones_created[zone_key]]
    ELSE zone_created(st, zone_key,
            create_zone_entry(st.ds, e.zone_name, e.character_name, e.timestamp, log_date))

(* mutant: an event whose key has been seen is inserted all the same *)
flush_dedup_unchecked(z, dedup_key, player_id, e) ==
    IF z.zone_id = NoId THEN z.st
    ELSE [z.st EXCEPT !.seen_events = @ \cup {dedup_key},
                      !.events_to_insert = Append(@, <<z.zone_id, player_id, e>>)]

(* _flush_batch, the deduplication of a pending event whose zone is z.zone_id *)
flush_dedup(z, dedup_key, player_id, e) ==
    IF z.zone_id = NoId \/ dedup_key \in z.st.seen_events THEN z.st
    ELSE [z.st EXCEPT !.seen_events = @ \cup {dedup_key},
                      !.events_to_insert = Append(@, <<z.zone_id, player_id, e>>)]

flush_keyed(z, player_id, e) ==
    flush_dedup(z, <<z.zone_id, e.npc_id, player_id, e.health_dmg, e.armor_dmg>>,
                player_id, e)

(* one iteration of the loop of _flush_batch over pending_events *)
flush_event(st, e, log_date) ==
    IF player_name_to_id(st.ds, e.player_name) = NoId THEN st
    ELSE flush_keyed(flush_zone(st, e, <<e.zone_name, e.character_name>>, log_date),
                     player_name_to_id(st.ds, e.player_name), e)

(* the loop of _flush_batch over pending_events, in order: the first half of
   the events, then the second, which keeps the evaluation shallow for a
   buffer of BATCH_SIZE events *)
RECURSIVE flush_loop(_, _, _)
flush_loop(st, pending, log_date) ==
    IF pending = <<>> \/ DOMAIN st = {}     \* st is evaluated first: it is never empty
    THEN st
    ELSE IF Len(pending) = 1 THEN flush_event(st, pending[1], log_date)
    ELSE flush_loop(flush_loop(st, SubSeq(pending, 1, Len(pending) \div 2), log_date),
                    SubSeq(pending, Len(pending) \div 2 + 1, Len(pending)), log_date)

(* the iteration orders Python can pick for the set of player names *)
Orders(S) == {o \in [1..Cardinality(S) -> S] : \A i, j \in 1..Cardinality(S) : o[i] = o[j] => i = j}

player_names(p) == {p.pending_events[i].player_name : i \in 1..Len(p.pending_events)}

(* _flush_batch after its loop: st is what the loop has left *)
flush_insert(p, st) ==
    [parser |-> [p EXCEPT !.zones_created = st.zones_created,
                          !.seen_events = st.seen_events,
                          !.pending_events = <<>>],
     ds |-> insert_damage_events_batch(st.ds, st.events_to_insert),
     ret |-> Len(st.events_to_insert)]

(* _flush_batch; order is the order in which Python iterates over a set of
   player names *)
flush_batch(p, ds, order) ==
    IF p.pending_events = <<>> THEN [parser |-> p, ds |-> ds, ret |-> 0]
    ELSE LET Pending(n) == n \in player_names(p)
         IN flush_insert(p,
                flush_loop([ds |-> get_or_create_players_batch(ds, SelectSeq(order, Pending)),
                            zones_created |-> p.zones_created,
                            seen_events |-> p.seen_events, events_to_insert |-> <<>>],
                           p.pending_events, p.log_date))

(* end_batch_mode after its flush f *)
batch_ended(f) ==
    [parser |-> [f.parser EXCEPT !.pending_events = <<>>], ds |-> f.ds, ret |-> f.ret]

end_batch_mode(p, ds, order) ==
    batch_ended(flush_batch([p EXCEPT !.batch_mode = FALSE], ds, order))

(* datetime.strptime(time_str, '%H:%M:%S') raises ValueError: the text has
   the shape dd:dd:dd but is no time of day, as 25:61:61; such a text is
   written here as a number of seconds outside the day *)
strptime_raises(time_str) == time_str \notin 0..(SecondsPerDay - 1)

(* mutant: the rollover bookkeeping is done before the text is validated *)
parse_timestamp_validates_last(p, time_str) ==
    [parser |-> [p EXCEPT !.last_timestamp = p.current_date * SecondsPerDay + time_str],
     ret |-> IF strptime_raises(time_str) THEN Raised
             ELSE p.current_date * SecondsPerDay + time_str]

(* mutant: the rollover test is missing *)
parse_timestamp_no_rollover(p, time_str) ==
    LET result == p.current_date * SecondsPerDay + time_str
    IN [parser |-> [p EXCEPT !.last_timestamp = result], ret |-> result]

(* mutant: the result is not recomputed after the date anchor has advanced *)
parse_timestamp_stale_result(p, time_str) ==
    LET result == p.current_date * SecondsPerDay + time_str
        rolled == p.last_timestamp # NoTime /\ result < p.last_timestamp
        date == IF rolled THEN p.current_date + 1 ELSE p.current_date
    IN [parser |-> [p EXCEPT !.current_date = date, !.last_timestamp = result],
        ret |-> result]

parse_timestamp(p, time_str) ==
    LET result == p.current_date * SecondsPerDay + time_str
        rolled == p.last_timestamp # NoTime /\ result < p.last_timestamp
        date == IF rolled THEN p.current_date + 1 ELSE p.current_date
        final == date * SecondsPerDay + time_str
    IN IF strptime_raises(time_str)
       THEN [parser |-> p, ret |-> Raised]
       ELSE [parser |-> [p EXCEPT !.current_date = date, !.last_timestamp = final],
             ret |-> final]

(* parse_line, character branch *)
character_branch(p, ds, l) ==
    [parser |-> [p EXCEPT !.current_character = l.name], ds |-> ds, ret |-> FALSE]

(* mutant: a transition exactly zone_debounce_seconds after the last one is
   still taken for a duplicate *)
zone_branch_inclusive(p, ds, l) ==
    LET ts == parse_timestamp(p, l.time)
        q == ts.parser
        timestamp == ts.ret
        info == [name |-> l.name, entered_time |-> timestamp,
                 character_name |-> q.current_character]
    IN IF /\ q.last_zone_name = l.name
          /\ q.last_zone_time # NoTime
          /\ timestamp - q.last_zone_time <= zone_debounce_seconds
       THEN [parser |-> [q EXCEPT !.current_zone = info], ds |-> ds, ret |-> FALSE]
       ELSE LET made == create_zone_entry(ds, l.name, q.current_character,
                                          timestamp, q.log_date)
            IN [parser |-> [q EXCEPT !.current_zone = info,
                                     !.last_zone_name = l.name,
                                     !.last_zone_time = timestamp,
                                     !.current_zone_id = made.ret,
                                     !.zones_created =
                                        IF q.batch_mode
                                        THEN (<<l.name, q.current_character>> :> made.ret) @@ @
                                        ELSE @],
                ds |-> made.ds, ret |-> FALSE]

(* parse_line, zone branch, for a zone name outside SKIP_ZONES *)
zone_branch(p, ds, l) ==
    LET ts == parse_timestamp(p, l.time)
        q == ts.parser
        timestamp == ts.ret
        info == [name |-> l.name, entered_time |-> timestamp,
                 character_name |-> q.current_character]
    IN IF timestamp = Raised
       THEN [parser |-> q, ds |-> ds, ret |-> FALSE]
       ELSE IF /\ q.last_zone_name = l.name
          /\ q.last_zone_time # NoTime
          /\ timestamp - q.last_zone_time < zone_debounce_seconds
       THEN [parser |-> [q EXCEPT !.current_zone = info], ds |-> ds, ret |-> FALSE]
       ELSE LET made == create_zone_entry(ds, l.name, q.current_character,
                                          timestamp, q.log_date)
            IN [parser |-> [q EXCEPT !.current_zone = info,
                                     !.last_zone_name = l.name,
                                     !.last_zone_time = timestamp,
                                     !.current_zone_id = made.ret,
                                     !.zones_created =
                                        IF q.batch_mode
                                        THEN (<<l.name, q.current_character>> :> made.ret) @@ @
                                        ELSE @],
                ds |-> made.ds, ret |-> FALSE]

(* parse_line, corpse branch; now is the wall clock, used when the line has
   no timestamp prefix *)
corpse_branch(p, ds, l, now) ==
    LET ts == IF TIMESTAMP_PATTERN(l) # NoTime
              THEN parse_timestamp(p, TIMESTAMP_PATTERN(l))
              ELSE [parser |-> p, ret |-> now]
    IN IF ts.ret = Raised
       THEN [parser |-> ts.parser, ds |-> ds, ret |-> FALSE]
       ELSE [parser |-> [ts.parser EXCEPT !.pending_corpse =
                        [npc_id |-> l.num, npc_name |-> l.name, timestamp |-> ts.ret]],
             ds |-> ds, ret |-> FALSE]

(* mutant: the pending corpse is consumed by the damage line that uses it *)
damage_branch_clears(p, ds, l, order) ==
    LET m == DAMAGE_PATTERN(l)
        health_dmg == IF m.health # Absent THEN m.health ELSE 0
        armor_dmg == IF m.armor # Absent THEN m.armor ELSE 0
        event == [player_name |-> m.name, health_dmg |-> health_dmg,
                  armor_dmg |-> armor_dmg, npc_id |-> p.pending_corpse.npc_id,
                  npc_name |-> p.pending_corpse.npc_name,
                  zone_name |-> IF p.current_zone # NoZone
                                THEN p.current_zone.name ELSE "Unknown",
                  timestamp |-> p.pending_corpse.timestamp,
                  character_name |-> p.current_character,
                  zone_id |-> p.current_zone_id]
        cleared == [p EXCEPT !.pending_corpse = NoCorpse]
    IN IF health_dmg = 0 /\ armor_dmg = 0
       THEN [parser |-> p, ds |-> ds, ret |-> FALSE]
       ELSE IF p.batch_mode
       THEN [parser |-> [cleared EXCEPT !.pending_events = Append(@, event)],
             ds |-> ds, ret |-> TRUE]
       ELSE [parser |-> cleared,
             ds |-> insert_damage_event(ds, event, p.current_zone_id).ds,
             ret |-> TRUE]

(* parse_line, damage branch: the DamageEvent built from the match m *)
damage_event(p, m) ==
    [player_name |-> m.name,
     health_dmg |-> IF m.health # Absent THEN m.health ELSE 0,
     armor_dmg |-> IF m.armor # Absent THEN m.armor ELSE 0,
     npc_id |-> p.pending_corpse.npc_id,
     npc_name |-> p.pending_corpse.npc_name,
     zone_name |-> IF p.current_zone # NoZone THEN p.current_zone.name ELSE "Unknown",
     timestamp |-> p.pending_corpse.timestamp,
     character_name |-> p.current_character,
     zone_id |-> p.current_zone_id]

(* mutant: the buffer is flushed only once it holds more than BATCH_SIZE *)
damage_queued_late(q, ds, order) ==
    IF Len(q.pending_events) > BATCH_SIZE
    THEN [flush_batch(q, ds, order) EXCEPT !.ret = TRUE]
    ELSE [parser |-> q, ds |-> ds, ret |-> TRUE]

(* parse_line, damage branch in batch mode: q has the event appended *)
damage_queued(q, ds, order) ==
    IF Len(q.pending_events) >= BATCH_SIZE
    THEN [flush_batch(q, ds, order) EXCEPT !.ret = TRUE]
    ELSE [parser |-> q, ds |-> ds, ret |-> TRUE]

damage_handled(p, ds, event, order) ==
    IF event.health_dmg = 0 /\ event.armor_dmg = 0
    THEN [parser |-> p, ds |-> ds, ret |-> FALSE]
    ELSE IF p.batch_mode
    THEN damage_queued([p EXCEPT !.pending_events = Append(@, event)], ds, order)
    ELSE [parser |-> p,
          ds |-> insert_damage_event(ds, event, p.current_zone_id).ds,
          ret |-> TRUE]

(* parse_line, damage branch: the pattern matched and a corpse is pending *)
damage_branch(p, ds, l, order) ==
    damage_handled(p, ds, damage_event(p, DAMAGE_PATTERN(l)), order)

(* parse_line, wisdom branch: the pattern matched and current_zone_id is set *)
wisdom_branch(p, ds, l) ==
    [parser |-> p, ds |-> add_wisdom(ds, p.current_zone_id, l.num), ret |-> FALSE]

(* parse_line: ret tells whether a DamageEvent is returned *)
parse_line(p, ds, l, now, order) ==
    IF CHARACTER_PATTERN(l) THEN character_branch(p, ds, l)
    ELSE IF ZONE_PATTERN(l) /\ l.name \notin SKIP_ZONES THEN zone_branch(p, ds, l)
    ELSE IF CORPSE_PATTERN(l) THEN corpse_branch(p, ds, l, now)
    ELSE IF DAMAGE_PATTERN(l).matched /\ p.pending_corpse # NoCorpse
    THEN damage_branch(p, ds, l, order)
    ELSE IF WISDOM_PATTERN(l) /\ p.current_zone_id # NoId THEN wisdom_branch(p, ds, l)
    ELSE [parser |-> p, ds |-> ds, ret |-> FALSE]

----------------------------------------------------------------------------
(* The lines fed to the parsers *)

DamageFields == {<<5, Absent>>, <<0, 3>>, <<0, Absent>>, <<Absent, Absent>>}
Midnight == Today * SecondsPerDay        \* 00:00:00 of the day the process runs on
Now == Midnight + 40000                  \* the wall clock, datetime.now()

LoginLines == {LoginLine(c) : c \in Characters}
ZoneLines == {ZoneLine(t, z) : t \in TimesOfDay, z \in Zones}
CorpseLines == {CorpseLine(t, n) : t \in TimesOfDay \cup {NoTime}, n \in Npcs}
DamageLines == {DamageLine(NoTime, p, f[1], f[2]) : p \in Players, f \in DamageFields}
                 \cup {DamageLine(2, "Al", 5, 3)}
WisdomLines == {WisdomLine(t, 4) : t \in {NoTime, 2}}
OtherLines == {OtherLine}

----------------------------------------------------------------------------
(* Streaming: LogMonitor._monitor_loop on the GUI's parser *)

IdleLoader ==
    [pc |-> "idle", pos |-> 0, parser |-> NewParser(Today), cancel_requested |-> FALSE,
     line_count |-> 0, damage_count |-> 0, runs |-> 0, completions |-> <<>>]

NoEvent ==
    [player_name |-> NoName, health_dmg |-> 0, armor_dmg |-> 0, npc_id |-> NoId,
     npc_name |-> NoName, zone_name |-> NoName, timestamp |-> NoTime,
     character_name |-> NoName, zone_id |-> NoId]

NoArg ==
    [name |-> NoName, names |-> {}, id |-> NoId, ids |-> {}, alias |-> NoName,
     character |-> NoName, start |-> NoTime, end |-> NoTime, data |-> <<>>]

NoCall ==
    [op |-> "none", event |-> NoEvent, arg |-> NoArg, ret |-> 0, result |-> <<>>,
     raised |-> FALSE, calls |-> 0]

(* LogMonitor.__init__, and None where the GUI holds no monitor: pc is the
   position of the monitor's thread in _monitor_loop ("none": no thread), line
   the line readline has returned to it *)
NoMonitor == [running |-> FALSE, pc |-> "none", line |-> OtherLine]

(* DamageParserGUI.__init__: no monitor, no load active.  old is the monitor
   the GUI has let go of after stop() returned, joining tells which handler
   is inside monitor.stop(), errors counts the 'error' items put on
   event_queue.  zones_tree holds the rows of the zone-runs view, and
   refreshing and instances the position of _refresh_zone_runs in its loop.
   The GUI takes part under SpecGui and SpecThreads; elsewhere it stays as
   constructed. *)
NoGui ==
    [loading_active |-> FALSE, monitor |-> NoMonitor, old |-> NoMonitor,
     joining |-> "no", errors |-> 0, warned |-> FALSE,
     current_character |-> NoName, current_zone |-> NoName, current_zone_id |-> NoId,
     zones_tree |-> <<>>, refreshing |-> FALSE, instances |-> <<>>]

(* the record of a direct call on the store that has returned ret *)
Returned(op, event, arg, ret) ==
    [NoCall EXCEPT !.op = op, !.event = event, !.arg = arg, !.ret = ret,
                   !.calls = api.calls + 1]

(* _start_monitoring has set the log date of the live file and started the
   monitor; nothing is stored yet *)
Init ==
    /\ data_store = EmptyStore
    /\ parser = set_log_date(NewParser(Today), Today)
    /\ line = OtherLine
    /\ file_position = 0
    /\ loader = IdleLoader
    /\ file = <<>>
    /\ api = NoCall
    /\ gui = NoGui

(* one iteration of the monitor loop that read a line *)
MonitorLine(l) ==
    /\ file_position < MaxLines
    /\ \E r \in {parse_line(parser, data_store, l, Now, <<>>)} :
          /\ parser' = r.parser
          /\ data_store' = r.ds
    /\ line' = l
    /\ file_position' = file_position + 1
    /\ UNCHANGED <<loader, file, api, gui>>

ReadLogin == \E l \in LoginLines : MonitorLine(l)
ReadZone == \E l \in ZoneLines : MonitorLine(l)
ReadCorpse == \E l \in CorpseLines : MonitorLine(l)
ReadDamage == \E l \in DamageLines : MonitorLine(l)
ReadWisdom == \E l \in WisdomLines : MonitorLine(l)
ReadOther == \E l \in OtherLines : MonitorLine(l)

Next == ReadLogin \/ ReadZone \/ ReadCorpse \/ ReadDamage \/ ReadWisdom \/ ReadOther

Spec == Init /\ [][Next]_vars

----------------------------------------------------------------------------
(* Batch import: BackgroundLoader.load_file and _load_worker.  The content
   of the imported file is fixed line by line as the first run reads it; the
   later runs read the same file. *)

BatchLines ==
    {LoginLine("Ann"), ZoneLine(2, "AreaA"), ZoneLine(32, "AreaB"), ZoneLine(32, "AreaA"),
     CorpseLine(2, <<42, "Wolf">>), CorpseLine(32, <<43, "Bear">>),
     DamageLine(NoTime, "Al", 5, Absent), DamageLine(NoTime, "Bo", 0, 3),
     DamageLine(NoTime, "Al", 0, Absent)}

(* complete_callback and _on_load_complete: the outcome that is delivered,
   with what get_stats and get_all_existing_event_keys(log_date) return at
   that moment *)
completion(success, message, lines, events, ds) ==
    [success |-> success, message |-> message, lines |-> lines, events |-> events,
     stored |-> Len(ds.events_list), keys |-> get_all_existing_event_keys(ds, LogDay)]

(* load_file, called by _load_file_background when no load is active *)
LoadFile ==
    /\ loader.pc \in {"idle", "done"}
    /\ loader.runs < MaxRuns
    /\ loader' = [loader EXCEPT !.pc = "start", !.cancel_requested = FALSE,
                                !.runs = @ + 1]
    /\ UNCHANGED <<data_store, parser, line, file_position, file, api, gui>>

(* cancel, called by the GUI while a load is active *)
Cancel ==
    /\ loader.pc \in {"start", "loop", "finalize"}
    /\ ~loader.cancel_requested
    /\ loader' = [loader EXCEPT !.cancel_requested = TRUE]
    /\ UNCHANGED <<data_store, parser, line, file_position, file, api, gui>>

(* _load_worker, up to the loop over the file *)
WorkerStart ==
    /\ loader.pc = "start"
    /\ loader' = [loader EXCEPT
                    !.pc = "loop", !.pos = 0, !.line_count = 0, !.damage_count = 0,
                    !.parser = start_batch_mode(
                                  set_log_date(NewParser(Today), LogDay),
                                  get_all_existing_event_keys(data_store, LogDay))]
    /\ UNCHANGED <<data_store, parser, line, file_position, file, api, gui>>

(* mutant: a cancelled worker still flushes what it has buffered *)
WorkerCancelledFlushes ==
    /\ loader.pc = "loop"
    /\ loader.cancel_requested
    /\ \E r \in {end_batch_mode(loader.parser, data_store, <<"Al", "Bo">>)} :
          /\ data_store' = r.ds
          /\ loader' = [loader EXCEPT !.pc = "done", !.parser = r.parser,
                          !.completions = Append(@, completion(FALSE, "Cancelled", 0, 0, r.ds))]
    /\ UNCHANGED <<parser, line, file_position, file, api, gui>>

(* mutant: a cancelled worker returns without calling complete_callback *)
WorkerCancelledSilently ==
    /\ loader.pc = "loop"
    /\ loader.cancel_requested
    /\ loader' = [loader EXCEPT !.pc = "done"]
    /\ UNCHANGED <<data_store, parser, line, file_position, file, api, gui>>

(* _load_worker, the loop observes cancel_requested *)
WorkerCancelled ==
    /\ loader.pc = "loop"
    /\ loader.cancel_requested
    /\ loader' = [loader EXCEPT !.pc = "done",
                    !.completions = Append(@, completion(FALSE, "Cancelled", 0, 0, data_store))]
    /\ UNCHANGED <<data_store, parser, line, file_position, file, api, gui>>

(* _load_worker, one iteration of the loop on the line l *)
WorkerParse(l, order) ==
    \E r \in {parse_line(loader.parser, data_store, l, Now, order)} :
       /\ data_store' = r.ds
       /\ loader' = [loader EXCEPT !.parser = r.parser, !.pos = @ + 1,
                        !.line_count = @ + 1,
                        !.damage_count = IF r.ret THEN @ + 1 ELSE @]

(* _load_worker, one iteration of the loop that reads a line; the lines of
   the file are drawn from the set lines *)
WorkerReads(lines) ==
    /\ loader.pc = "loop"
    /\ ~loader.cancel_requested
    /\ \E order \in Orders(Players) :
         \/ /\ loader.pos < Len(file)
            /\ WorkerParse(file[loader.pos + 1], order)
            /\ file' = file
         \/ /\ loader.runs = 1
            /\ loader.pos = Len(file)
            /\ Len(file) < MaxFileLen
            /\ \E l \in lines : WorkerParse(l, order) /\ file' = Append(file, l)
    /\ UNCHANGED <<parser, line, file_position, api, gui>>

WorkerLine == WorkerReads(BatchLines)

(* _load_worker, readline meets the end of the file *)
WorkerEndOfFile ==
    /\ loader.pc = "loop"
    /\ ~loader.cancel_requested
    /\ loader.pos = Len(file)
    /\ loader' = [loader EXCEPT !.pc = "finalize"]
    /\ UNCHANGED <<data_store, parser, line, file_position, file, api, gui>>

(* _load_worker, end_batch_mode and the completion *)
WorkerFinish ==
    /\ loader.pc = "finalize"
    /\ \E order \in Orders(Players) :
         \E r \in {end_batch_mode(loader.parser, data_store, order)} :
            /\ data_store' = r.ds
            /\ loader' = [loader EXCEPT
                            !.pc = "done", !.parser = r.parser,
                            !.damage_count = @ + r.ret,
                            !.completions = Append(@,
                                completion(TRUE, "Loaded", loader.line_count,
                                           loader.damage_count + r.ret, r.ds))]
    /\ UNCHANGED <<parser, line, file_position, file, api, gui>>

NextBatch ==
    LoadFile \/ Cancel \/ WorkerStart \/ WorkerCancelled \/ WorkerLine \/ WorkerEndOfFile \/ WorkerFinish

SpecBatch == Init /\ [][NextBatch]_vars

----------------------------------------------------------------------------
(* Direct calls on the store, by any of its clients *)

CallTimes == {Midnight + 32, LogDay * SecondsPerDay + 2}

CallEvents ==
    {[player_name |-> p, health_dmg |-> f[1], armor_dmg |-> f[2], npc_id |-> 42,
      npc_name |-> "Wolf", zone_name |-> "AreaA", timestamp |-> Midnight + 2,
      character_name |-> "Ann", zone_id |-> NoId] :
        p \in Players, f \in {<<0, 0>>, <<5, 0>>}}

(* a client calls create_zone_entry with arguments from the given sets *)
CreateZoneEntryCalls(names, characters, times) ==
    \E name \in names, c \in characters, t \in times :
        /\ api.calls < MaxCalls
        /\ \E r \in {create_zone_entry(data_store, name, c, t, t \div SecondsPerDay)} :
              /\ data_store' = r.ds
              /\ api' = Returned("create_zone_entry", NoEvent,
                                 [NoArg EXCEPT !.name = name, !.character = c, !.start = t],
                                 r.ret)
        /\ UNCHANGED <<parser, line, file_position, loader, file, gui>>

CallCreateZoneEntry == CreateZoneEntryCalls(Zones, Characters \cup {NoName}, CallTimes)

(* a client calls insert_damage_event with an event from the given set *)
InsertDamageEventCalls(events) ==
    \E e \in events, z \in 0..Len(data_store.zones_list) :
        /\ api.calls < MaxCalls
        /\ \E r \in {insert_damage_event(data_store, e, z)} :
              /\ data_store' = r.ds
              /\ api' = Returned("insert_damage_event", e, [NoArg EXCEPT !.id = z], r.ret)
        /\ UNCHANGED <<parser, line, file_position, loader, file, gui>>

CallInsertDamageEvent == InsertDamageEventCalls(CallEvents)

----------------------------------------------------------------------------
(* The store under direct calls of its methods: players, aliases, zones,
   events and the wholesale clear *)

AliasInputs == {"", "Ace"}     \* what the alias dialog can hand over
MaxPlayerId == 3               \* the player ids a caller may name

(* the alias file at start-up: missing, or left by an earlier session *)
StoredAliases == {EmptyDict, "Bo" :> "Ace"}

InitStore ==
    /\ \E aliases \in StoredAliases : data_store = NewStore(aliases)
    /\ parser = set_log_date(NewParser(Today), Today)
    /\ line = OtherLine
    /\ file_position = 0
    /\ loader = IdleLoader
    /\ file = <<>>
    /\ api = NoCall
    /\ gui = NoGui

CallGetOrCreatePlayer ==
    \E name \in Players :
        /\ api.calls < MaxCalls
        /\ \E r \in {get_or_create_player(data_store, name)} :
              /\ data_store' = r.ds
              /\ api' = Returned("get_or_create_player", NoEvent,
                                 [NoArg EXCEPT !.name = name], r.ret)
        /\ UNCHANGED <<parser, line, file_position, loader, file, gui>>

(* the dict get_or_create_players_batch returns: the id of every name *)
CallGetOrCreatePlayersBatch ==
    \E names \in SUBSET Players :
      \E order \in Orders(names) :
        /\ api.calls < MaxCalls
        /\ \E ds \in {get_or_create_players_batch(data_store, order)} :
              /\ data_store' = ds
              /\ api' = [Returned("get_or_create_players_batch", NoEvent,
                                  [NoArg EXCEPT !.names = names], 0)
                            EXCEPT !.result = [n \in names |-> ds.player_name_to_id[n]]]
        /\ UNCHANGED <<parser, line, file_position, loader, file, gui>>

CallUpdatePlayerAlias ==
    \E id \in 1..MaxPlayerId, alias \in AliasInputs :
        /\ api.calls < MaxCalls
        /\ data_store' = update_player_alias(data_store, id, alias)
        /\ api' = Returned("update_player_alias", NoEvent,
                           [NoArg EXCEPT !.id = id, !.alias = alias], 0)
        /\ UNCHANGED <<parser, line, file_position, loader, file, gui>>

CallClearAllData ==
    /\ api.calls < MaxCalls
    /\ \E r \in {clear_all_data(data_store)} :
          /\ data_store' = r.ds
          /\ api' = [Returned("clear_all_data", NoEvent, NoArg, 0)
                        EXCEPT !.raised = r.raised]
    /\ UNCHANGED <<parser, line, file_position, loader, file, gui>>

StoreCreateZoneEntry == CreateZoneEntryCalls(Zones, Characters, CallTimes)

StoreEvents == {e \in CallEvents : e.player_name = "Al"}
StoreInsertDamageEvent == InsertDamageEventCalls(StoreEvents)

NextStore ==
    \/ CallGetOrCreatePlayer
    \/ CallGetOrCreatePlayersBatch
    \/ CallUpdatePlayerAlias
    \/ CallClearAllData
    \/ StoreCreateZoneEntry
    \/ StoreInsertDamageEvent

SpecStore == InitStore /\ [][NextStore]_vars

----------------------------------------------------------------------------
(* The streaming parser, a batch import and other clients of the store,
   interleaved on the one store, within a budget of lines and calls *)

MixedLines ==
    {LoginLine("Ann"), ZoneLine(2, "AreaA"), ZoneLine(32, "AreaB"),
     CorpseLine(2, <<42, "Wolf">>), DamageLine(NoTime, "Al", 5, Absent),
     DamageLine(NoTime, "Al", 0, Absent), DamageLine(NoTime, "Bo", Absent, Absent)}

Steps == file_position + Len(file) + api.calls

MonitorReads == \E l \in MixedLines : MonitorLine(l)
WorkerReadsMixed == WorkerReads(MixedLines)

WithinBudget == Steps < MaxSteps

NextAll ==
    \/ WithinBudget /\ MonitorReads
    \/ LoadFile
    \/ WorkerStart
    \/ WithinBudget /\ WorkerReadsMixed
    \/ WorkerEndOfFile
    \/ WorkerFinish
    \/ WithinBudget /\ CallCreateZoneEntry
    \/ WithinBudget /\ CallInsertDamageEvent

SpecAll == Init /\ [][NextAll]_vars

----------------------------------------------------------------------------
(* Properties of the streaming parser, checked under Spec *)

(* the step is an iteration of the monitor loop; line' is the line it read *)
LineRead == file_position' = file_position + 1

(* the step handed the timestamp of line' to parse_timestamp *)
TimestampParsed ==
    /\ LineRead
    /\ line'.time # NoTime
    /\ ZONE_PATTERN(line') \/ CORPSE_PATTERN(line')

TimeOfDay(ts) == ts % SecondsPerDay

(* C6: within one ingestion run the absolute timestamps parse_timestamp
   returns (each is kept in last_timestamp) never decrease. *)
C6_TimestampsNonDecreasing ==
    [][parser.last_timestamp # NoTime
         => parser'.last_timestamp >= parser.last_timestamp]_vars

(* C6 witness: a day rollover has been inferred *)
C6_Witness ==
    /\ parser.current_date > Today
    /\ parser.last_timestamp >= (Today + 1) * SecondsPerDay

(* C7: when the parsed time of day is earlier than the previous one the date
   anchor advances by exactly one day and the elapsed gap is
   86400 - previous + new seconds, positive and shorter than a day;
   23:59:58 followed by 00:00:02 gives 4 seconds. *)
C7_RolloverGap ==
    [][(/\ TimestampParsed
        /\ parser.last_timestamp # NoTime
        /\ line'.time < TimeOfDay(parser.last_timestamp))
       => (/\ parser'.current_date = parser.current_date + 1
           /\ parser'.last_timestamp - parser.last_timestamp
                = SecondsPerDay - TimeOfDay(parser.last_timestamp) + line'.time
           /\ parser'.last_timestamp - parser.last_timestamp > 0
           /\ parser'.last_timestamp - parser.last_timestamp < SecondsPerDay
           /\ (TimeOfDay(parser.last_timestamp) = 86398 /\ line'.time = 2
                 => parser'.last_timestamp - parser.last_timestamp = 4))]_vars

(* C7 witness: a zone entered at 23:59:58, then a corpse searched at 00:00:02 *)
C7_Witness ==
    /\ file_position = 2
    /\ Len(data_store.zones_list) = 1
    /\ data_store.zones_list[1].entered_time = Midnight + 86398
    /\ parser.pending_corpse.timestamp = Midnight + SecondsPerDay + 2
    /\ parser.pending_corpse.timestamp - data_store.zones_list[1].entered_time = 4

(* the step read a zone-transition line into a zone that is not excluded *)
ZoneLineRead == LineRead /\ ZONE_PATTERN(line') /\ line'.name \notin SKIP_ZONES

(* the zone-transition line of the step falls into the debounce window: it
   names the zone of the last transition the context accepted and comes
   less than zone_debounce_seconds after it *)
InDebounceWindow ==
    /\ line'.name = parser.last_zone_name
    /\ parser.last_zone_time # NoTime
    /\ parser'.last_timestamp - parser.last_zone_time < zone_debounce_seconds

ZonesUntouched ==
    /\ data_store'.zones_list = data_store.zones_list
    /\ data_store'.next_zone_id = data_store.next_zone_id

(* the zone instance the current character has open, as a set *)
OpenZoneOfCharacter ==
    {z \in {data_store.zones_list[i] : i \in 1..Len(data_store.zones_list)} :
        z.character_name = parser.current_character /\ z.left_time = NoTime}

(* C2: a zone-transition line that repeats the previous line, or that comes
   again within the debounce window, creates no zone instance and leaves the
   zone id counter alone; and a transition into the zone the character has
   open leaves the open record as it is and, when create_zone_entry is
   called, yields the id of that record. *)
C2_DuplicateZoneLine ==
    [][ZoneLineRead =>
        /\ line' = line => ZonesUntouched
        /\ InDebounceWindow => ZonesUntouched
        /\ \A z \in OpenZoneOfCharacter :
              z.name = line'.name
                => /\ ZonesUntouched
                   /\ ~InDebounceWindow => parser'.current_zone_id = z.zone_id]_vars

(* C2 witness: AreaA entered at 00:00:02 and again at 00:00:31: one instance *)
C2_Witness ==
    /\ file_position = 2
    /\ line = ZoneLine(31, "AreaA")
    /\ Len(data_store.zones_list) = 1
    /\ data_store.zones_list[1].name = "AreaA"
    /\ data_store.zones_list[1].entered_time = Midnight + 2
    /\ parser.current_zone.entered_time = Midnight + 31
    /\ data_store.next_zone_id = 2

(* the zone-transition line of the step repeats the zone of the last
   accepted transition exactly zone_debounce_seconds after it *)
AtDebounceBoundary ==
    /\ ZoneLineRead
    /\ line'.name = parser.last_zone_name
    /\ parser.last_zone_time # NoTime
    /\ parser'.last_timestamp - parser.last_zone_time = zone_debounce_seconds

(* C3 as stated: a repeated transition at exactly the debounce threshold
   creates a new zone instance. *)
C3_BoundaryCreatesInstance ==
    [][AtDebounceBoundary
         => Len(data_store'.zones_list) = Len(data_store.zones_list) + 1]_vars

(* C3 amended: a repeated transition at exactly the debounce threshold is not
   taken for a duplicate: it restarts the window and is handed to
   create_zone_entry, which opens a new instance only if the character has no
   open instance of that zone, and otherwise reuses the open one. *)
C3_BoundaryNotDuplicate ==
    [][AtDebounceBoundary =>
        /\ parser'.last_zone_time = parser'.last_timestamp
        /\ \A z \in OpenZoneOfCharacter :
              z.name = line'.name
                => ZonesUntouched /\ parser'.current_zone_id = z.zone_id
        /\ (\A z \in OpenZoneOfCharacter : z.name # line'.name)
              => /\ Len(data_store'.zones_list) = Len(data_store.zones_list) + 1
                 /\ LET new == data_store'.zones_list[Len(data_store'.zones_list)]
                    IN /\ new.name = line'.name
                       /\ new.character_name = parser.current_character
                       /\ new.entered_time = parser'.last_timestamp
                       /\ new.left_time = NoTime
                       /\ new.zone_id = data_store.next_zone_id
                       /\ parser'.current_zone_id = new.zone_id]_vars

(* C3 witness: AreaA entered at 00:00:02 and again at 00:00:32 by the same
   character: the window has restarted and the store holds one instance *)
C3_Witness ==
    /\ file_position = 2
    /\ line = ZoneLine(32, "AreaA")
    /\ parser.last_zone_time = Midnight + 32
    /\ Len(data_store.zones_list) = 1
    /\ data_store.zones_list[1].entered_time = Midnight + 2
    /\ parser.current_zone_id = 1

(* the step read a line with a damage-report body *)
DamageLineRead == LineRead /\ line'.kind = "damage"

(* the step stored one more event, attributed to the corpse that was pending *)
EventOfPendingCorpse ==
    /\ Len(data_store'.events_list) = Len(data_store.events_list) + 1
    /\ LET e == data_store'.events_list[Len(data_store'.events_list)]
       IN /\ e.npc_id = parser.pending_corpse.npc_id
          /\ e.npc_name = parser.pending_corpse.npc_name
          /\ e.timestamp = parser.pending_corpse.timestamp

(* C8 as stated: every damage-report line read while a corpse is pending
   stores an event of that corpse and leaves the corpse pending. *)
C8_EveryDamageLineYieldsEvent ==
    [][DamageLineRead /\ parser.pending_corpse # NoCorpse
         => /\ parser'.pending_corpse = parser.pending_corpse
            /\ EventOfPendingCorpse]_vars

(* C8 amended: no damage-report line changes the pending corpse; one from
   which a non-zero health or armor damage is extracted, read while a corpse
   is pending, stores an event with that corpse's target id, target name and
   kill timestamp; a corpse-search line replaces the pending corpse. *)
C8_DamageKeepsPendingCorpse ==
    [][/\ DamageLineRead => parser'.pending_corpse = parser.pending_corpse
       /\ (/\ DamageLineRead
           /\ parser.pending_corpse # NoCorpse
           /\ DAMAGE_PATTERN(line').health > 0 \/ DAMAGE_PATTERN(line').armor > 0)
          => EventOfPendingCorpse
       /\ LineRead /\ CORPSE_PATTERN(line')
          => parser'.pending_corpse =
                [npc_id |-> line'.num, npc_name |-> line'.name,
                 timestamp |-> IF line'.time # NoTime
                               THEN parser'.last_timestamp ELSE Now]]_vars

(* C8 witness: two players' damage lines stored for the corpse still pending *)
C8_Witness ==
    /\ Len(data_store.events_list) = 2
    /\ data_store.events_list[1].npc_id = parser.pending_corpse.npc_id
    /\ data_store.events_list[2].npc_id = parser.pending_corpse.npc_id
    /\ data_store.events_list[1].timestamp = parser.pending_corpse.timestamp
    /\ data_store.events_list[2].timestamp = parser.pending_corpse.timestamp
    /\ data_store.events_list[1].player_id # data_store.events_list[2].player_id

(* C9 as stated: a zone-transition line replaces the pending corpse, so the
   damage-report line that follows it stores no event. *)
C9_ZoneLineReplacesCorpse ==
    [][/\ LineRead
       /\ ZONE_PATTERN(line) /\ line.name \notin SKIP_ZONES
       /\ line'.kind = "damage"
       => data_store'.events_list = data_store.events_list]_vars

(* C10 as stated: a wisdom-award line read while current_zone_id is set adds
   the record (current zone id, amount); read with no zone id it adds none. *)
C10_WisdomRecorded ==
    [][LineRead /\ WISDOM_PATTERN(line')
         => IF parser.current_zone_id # NoId
            THEN data_store'.wisdom_list =
                    Append(data_store.wisdom_list,
                           [zone_id |-> parser.current_zone_id, amount |-> line'.num])
            ELSE data_store'.wisdom_list = data_store.wisdom_list]_vars

----------------------------------------------------------------------------
(* Properties of the batch import, checked under SpecBatch *)

(* C4 as stated: when two imports of the same file with the same log date
   have completed, the second has inserted no event and the event keys of
   the log date are those found after the first. *)
C4_SecondImportInsertsNothing ==
    (/\ Len(loader.completions) >= 2
     /\ loader.completions[1].success
     /\ loader.completions[2].success)
       => /\ loader.completions[2].stored = loader.completions[1].stored
          /\ loader.completions[2].keys = loader.completions[1].keys

----------------------------------------------------------------------------
(* Properties of the store under all its clients, checked under SpecAll *)

ZoneRecords == {data_store.zones_list[i] : i \in 1..Len(data_store.zones_list)}

(* the indexes of the zone instances the character has open *)
OpenZones(c) ==
    {i \in 1..Len(data_store.zones_list) :
        /\ data_store.zones_list[i].character_name = c
        /\ data_store.zones_list[i].left_time = NoTime}

(* C1: whatever create_zone_entry calls the streaming parser, the batch
   parser, its flush and other clients have made, every character (and the
   absent character) has at most one zone instance with no exit time. *)
C1_AtMostOneOpenZone ==
    \A c \in {z.character_name : z \in ZoneRecords} : Cardinality(OpenZones(c)) <= 1

(* C1 witness: one character has left a zone for the one it has open, while
   another character has a zone open too *)
C1_Witness ==
    \E a, b, c \in ZoneRecords :
        /\ a.character_name = b.character_name
        /\ a.left_time # NoTime /\ b.left_time = NoTime
        /\ c.character_name # a.character_name /\ c.left_time = NoTime

(* the step is a direct insert_damage_event call with an event that has
   neither health nor armor damage *)
ZeroEventInserted ==
    /\ api'.calls = api.calls + 1
    /\ api'.op = "insert_damage_event"
    /\ api'.event.health_dmg = 0 /\ api'.event.armor_dmg = 0

(* the step handled a damage-report line, read by the monitor or by the
   import, whose health and armor fields are both zero or absent *)
ZeroDamageLine(l) ==
    /\ l.kind = "damage"
    /\ DAMAGE_PATTERN(l).health \in {0, Absent}
    /\ DAMAGE_PATTERN(l).armor \in {0, Absent}

ZeroDamageLineRead ==
    \/ LineRead /\ ZeroDamageLine(line')
    \/ loader'.pos = loader.pos + 1 /\ ZeroDamageLine(file'[loader'.pos])

(* C5: no stored event has health damage 0 and armor damage 0; a damage line
   with both fields zero or absent stores and queues no event, in streaming
   and in batch mode; and insert_damage_event given such an event returns -1
   and inserts no event, creates no player and leaves the event id counter. *)
C5_NoZeroDamageEvent ==
    /\ [](\A i \in 1..Len(data_store.events_list) :
            data_store.events_list[i].health_dmg # 0
              \/ data_store.events_list[i].armor_dmg # 0)
    /\ [][ZeroDamageLineRead
            => /\ data_store'.events_list = data_store.events_list
               /\ loader'.parser.pending_events = loader.parser.pending_events
               /\ parser'.pending_events = parser.pending_events]_vars
    /\ [][ZeroEventInserted
            => /\ api'.ret = Rejected
               /\ data_store'.events_list = data_store.events_list
               /\ data_store'.players_list = data_store.players_list
               /\ data_store'.next_player_id = data_store.next_player_id
               /\ data_store'.next_event_id = data_store.next_event_id]_vars

(* C5 witness: with a corpse pending a zero-damage line was read and nothing
   stored, and then a zero-damage event was refused by the store *)
C5_Witness ==
    /\ parser.pending_corpse # NoCorpse
    /\ ZeroDamageLine(line)
    /\ api.op = "insert_damage_event"
    /\ api.event.health_dmg = 0 /\ api.event.armor_dmg = 0
    /\ api.ret = Rejected
    /\ data_store.events_list = <<>>
    /\ data_store.players_list = <<>>

----------------------------------------------------------------------------
(* Aggregate queries of the store.  A selection is the set of indexes of
   events_list the mask of a query keeps. *)

Min(S) == CHOOSE x \in S : \A y \in S : x <= y

has_damage(e) == e.health_dmg > 0 \/ e.armor_dmg > 0

get_original_name(ds, pid) ==
    IF pid \in DOMAIN ds.player_id_to_info THEN ds.player_id_to_info[pid].name
    ELSE "Unknown"

get_alias(ds, pid) ==
    IF pid \in DOMAIN ds.player_id_to_info THEN ds.player_id_to_info[pid].alias
    ELSE NoName

get_display_name(ds, pid) ==
    IF pid \in DOMAIN ds.player_id_to_info
    THEN IF ds.player_id_to_info[pid].alias \notin {NoName, ""}
         THEN ds.player_id_to_info[pid].alias
         ELSE ds.player_id_to_info[pid].name
    ELSE "Unknown"

(* agg 'sum' of a column over the rows of a group *)
RECURSIVE column_sum(_, _, _)
column_sum(events, rows, col) ==
    IF rows = {} THEN 0
    ELSE events[Max(rows)][col] + column_sum(events, rows \ {Max(rows)}, col)

column(events, rows, col) == {events[i][col] : i \in rows}

(* mutant: every event of a group counts as a kill *)
result_row_kill_per_event(ds, rows, pid) ==
    [player_id |-> pid,
     original_name |-> get_original_name(ds, pid),
     alias |-> get_alias(ds, pid),
     display_name |-> get_display_name(ds, pid),
     health_dmg |-> column_sum(ds.events_list, rows, "health_dmg"),
     armor_dmg |-> column_sum(ds.events_list, rows, "armor_dmg"),
     total_dmg |-> column_sum(ds.events_list, rows, "health_dmg")
                     + column_sum(ds.events_list, rows, "armor_dmg"),
     kills |-> Cardinality(rows),
     first_hit |-> Min(column(ds.events_list, rows, "timestamp")),
     last_hit |-> Max(column(ds.events_list, rows, "timestamp"))]

(* mutant: the row keeps the alias the player had when it was created *)
result_row_stale_alias(ds, rows, pid) ==
    [player_id |-> pid,
     original_name |-> get_original_name(ds, pid),
     alias |-> NoName,
     display_name |-> get_original_name(ds, pid),
     health_dmg |-> column_sum(ds.events_list, rows, "health_dmg"),
     armor_dmg |-> column_sum(ds.events_list, rows, "armor_dmg"),
     total_dmg |-> column_sum(ds.events_list, rows, "health_dmg")
                     + column_sum(ds.events_list, rows, "armor_dmg"),
     kills |-> Cardinality(column(ds.events_list, rows, "npc_id")),
     first_hit |-> Min(column(ds.events_list, rows, "timestamp")),
     last_hit |-> Max(column(ds.events_list, rows, "timestamp"))]

(* one row of the result: the aggregates of the group of player pid, whose
   events are at the indexes rows, with the names looked up at query time *)
result_row(ds, rows, pid) ==
    [player_id |-> pid,
     original_name |-> get_original_name(ds, pid),
     alias |-> get_alias(ds, pid),
     display_name |-> get_display_name(ds, pid),
     health_dmg |-> column_sum(ds.events_list, rows, "health_dmg"),
     armor_dmg |-> column_sum(ds.events_list, rows, "armor_dmg"),
     total_dmg |-> column_sum(ds.events_list, rows, "health_dmg")
                     + column_sum(ds.events_list, rows, "armor_dmg"),
     kills |-> Cardinality(column(ds.events_list, rows, "npc_id")),
     first_hit |-> Min(column(ds.events_list, rows, "timestamp")),
     last_hit |-> Max(column(ds.events_list, rows, "timestamp"))]

(* groupby('player_id') on the selection: the rows of one player *)
group(ds, selection, pid) == {i \in selection : ds.events_list[i].player_id = pid}

is_descending(results) ==
    \A k \in 1..(Len(results) - 1) : results[k].total_dmg >= results[k + 1].total_dmg

(* the results, one row per group, in the order the sort has left the groups *)
results_in(ds, selection, order) ==
    [k \in 1..Len(order) |-> result_row(ds, group(ds, selection, order[k]), order[k])]

(* sort_values('total_dmg', ascending=False): groups of equal total_dmg come
   in an order the sort does not promise, so every descending order is a
   possible result *)
damage_results(ds, selection) ==
    {results \in {results_in(ds, selection, order) :
                     order \in Orders(column(ds.events_list, selection, "player_id"))} :
        is_descending(results)}

zone_mask(ds, zone_ids) ==
    {i \in 1..Len(ds.events_list) :
        ds.events_list[i].zone_id \in zone_ids /\ has_damage(ds.events_list[i])}

get_damage_by_zone(ds, zone_id) ==
    damage_results(events_df(ds), zone_mask(events_df(ds), {zone_id}))

get_damage_by_zones(ds, zone_ids) ==
    IF zone_ids = {} THEN {<<>>}
    ELSE damage_results(events_df(ds), zone_mask(events_df(ds), zone_ids))

(* mutant: an event at end_time is left out *)
time_range_mask_open_end(ds, start_time, end_time, character_name) ==
    {i \in 1..Len(ds.events_list) :
        /\ ds.events_list[i].timestamp >= start_time
        /\ ds.events_list[i].timestamp < end_time
        /\ has_damage(ds.events_list[i])
        /\ character_name \notin {NoName, ""}
              => ds.events_list[i].character_name = character_name}

time_range_mask(ds, start_time, end_time, character_name) ==
    {i \in 1..Len(ds.events_list) :
        /\ ds.events_list[i].timestamp >= start_time
        /\ ds.events_list[i].timestamp <= end_time
        /\ has_damage(ds.events_list[i])
        /\ character_name \notin {NoName, ""}
              => ds.events_list[i].character_name = character_name}

get_damage_in_time_range(ds, start_time, end_time, character_name) ==
    damage_results(events_df(ds),
                   time_range_mask(events_df(ds), start_time, end_time, character_name))

(* get_zone_combat_times: first hit, last hit and kills of the zone *)
combat_times(ds, selection) ==
    IF selection = {} THEN <<NoTime, NoTime, 0>>
    ELSE <<Min(column(ds.events_list, selection, "timestamp")),
           Max(column(ds.events_list, selection, "timestamp")),
           Cardinality(column(ds.events_list, selection, "npc_id"))>>

get_zone_combat_times(ds, zone_id) ==
    combat_times(events_df(ds), zone_mask(events_df(ds), {zone_id}))

(* PandasDataStore._get_zone_stats: kills, damage and wisdom of one zone
   instance, read from the lists without the lock; a zone with no damaging
   event answers with the three zeros before the wisdom list is looked at *)
wisdom_mask(ds, zone_id) ==
    {i \in DOMAIN ds.wisdom_list : ds.wisdom_list[i].zone_id = zone_id}

zone_stats(events, wisdom, zone_events, zone_wisdom) ==
    IF zone_events = {}
    THEN [kills |-> 0, total_dmg |-> 0, wisdom |-> 0]
    ELSE [kills |-> Cardinality(column(events, zone_events, "npc_id")),
          total_dmg |-> column_sum(events, zone_events, "health_dmg")
                        + column_sum(events, zone_events, "armor_dmg"),
          wisdom |-> column_sum(wisdom, zone_wisdom, "amount")]

get_zone_stats(ds, zone_id) ==
    zone_stats(ds.events_list, ds.wisdom_list,
               zone_mask(ds, {zone_id}),
               wisdom_mask(ds, zone_id))

(* The store with events of two players in two zones, alias changes, and the
   three aggregate queries *)

MaxEvents == 3

QueryTimes == {Midnight + 2, Midnight + 31, Midnight + 32}

QueryEvent(zone_id, player, npc_id, health, armor, time, character) ==
    [player_name |-> player, health_dmg |-> health, armor_dmg |-> armor,
     npc_id |-> npc_id, npc_name |-> "Wolf", zone_name |-> NoName,
     timestamp |-> Midnight + time, character_name |-> character, zone_id |-> zone_id]

QueryEvents ==
    {QueryEvent(1, "Al", 42, 5, 0, 2, "Ann"),
     QueryEvent(1, "Al", 43, 0, 3, 31, "Ann"),
     QueryEvent(1, "Bo", 42, 5, 0, 31, "Bea"),
     QueryEvent(1, "Bo", 43, 3, 0, 2, "Ann"),
     QueryEvent(2, "Bo", 42, 2, 1, 32, "Ann"),
     QueryEvent(2, "Al", 42, 1, 1, 32, "Bea"),
     QueryEvent(2, "Al", 43, 0, 0, 31, "Bea")}

(* the record of a call of a store method that has returned *)
Answered(op, event, arg, ret, result) ==
    [NoCall EXCEPT !.op = op, !.event = event, !.arg = arg, !.ret = ret,
                   !.result = result]

InitQuery ==
    /\ data_store = EmptyStore
    /\ parser = set_log_date(NewParser(Today), Today)
    /\ line = OtherLine
    /\ file_position = 0
    /\ loader = IdleLoader
    /\ file = <<>>
    /\ api = NoCall
    /\ gui = NoGui

QueryInsertDamageEvent ==
    \E e \in QueryEvents :
        /\ Len(data_store.events_list) < MaxEvents
        /\ \E r \in {insert_damage_event(data_store, e, e.zone_id)} :
              /\ data_store' = r.ds
              /\ api' = Answered("insert_damage_event", e,
                                 [NoArg EXCEPT !.id = e.zone_id], r.ret, <<>>)
        /\ UNCHANGED <<parser, line, file_position, loader, file, gui>>

QueryUpdatePlayerAlias ==
    \E id \in 1..MaxPlayerId, alias \in AliasInputs :
        /\ data_store' = update_player_alias(data_store, id, alias)
        /\ api' = Answered("update_player_alias", NoEvent,
                           [NoArg EXCEPT !.id = id, !.alias = alias], 0, <<>>)
        /\ UNCHANGED <<parser, line, file_position, loader, file, gui>>

CallGetDamageByZone ==
    \E zone_id \in 1..3 :
        \E results \in get_damage_by_zone(data_store, zone_id) :
            /\ api' = Answered("get_damage_by_zone", NoEvent,
                               [NoArg EXCEPT !.ids = {zone_id}], 0, results)
            /\ data_store' = get_events_df(data_store)
            /\ UNCHANGED <<parser, line, file_position, loader, file, gui>>

CallGetDamageByZones ==
    \E zone_ids \in {{}, {2}, {1, 2}} :
        \E results \in get_damage_by_zones(data_store, zone_ids) :
            /\ api' = Answered("get_damage_by_zones", NoEvent,
                               [NoArg EXCEPT !.ids = zone_ids], 0, results)
            /\ data_store' = IF zone_ids = {} THEN data_store
                             ELSE get_events_df(data_store)
            /\ UNCHANGED <<parser, line, file_position, loader, file, gui>>

CallGetDamageInTimeRange ==
    \E start_time \in QueryTimes, end_time \in QueryTimes, c \in {NoName, "Ann"} :
        /\ start_time <= end_time
        /\ \E results \in get_damage_in_time_range(data_store, start_time, end_time, c) :
              /\ api' = Answered("get_damage_in_time_range", NoEvent,
                                 [NoArg EXCEPT !.start = start_time, !.end = end_time,
                                               !.character = c], 0, results)
              /\ data_store' = get_events_df(data_store)
              /\ UNCHANGED <<parser, line, file_position, loader, file, gui>>

NextQuery ==
    \/ QueryInsertDamageEvent
    \/ QueryUpdatePlayerAlias
    \/ CallGetDamageByZone
    \/ CallGetDamageByZones
    \/ CallGetDamageInTimeRange

SpecQuery == InitQuery /\ [][NextQuery]_vars

----------------------------------------------------------------------------
(* The event cache: single inserts, batch inserts and the wholesale clear,
   with zone queries in between, up to the event id MaxEvents *)

CacheEvents ==
    {QueryEvent(1, "Al", 42, 5, 0, 2, "Ann"),
     QueryEvent(2, "Al", 43, 0, 3, 31, "Ann"),
     QueryEvent(2, "Al", 43, 0, 0, 31, "Bea")}

(* the lists of tuples a caller hands to insert_damage_events_batch *)
CacheBatches ==
    {<<>>} \cup {<<<<e.zone_id, 1, e>>>> : e \in CacheEvents}
           \cup {<<<<e.zone_id, 1, e>>, <<f.zone_id, 1, f>>>> : e, f \in CacheEvents}

CacheInsertDamageEvent ==
    \E e \in CacheEvents :
        /\ data_store.next_event_id <= MaxEvents
        /\ \E r \in {insert_damage_event(data_store, e, e.zone_id)} :
              /\ data_store' = r.ds
              /\ api' = Answered("insert_damage_event", e,
                                 [NoArg EXCEPT !.id = e.zone_id], r.ret, <<>>)
        /\ UNCHANGED <<parser, line, file_position, loader, file, gui>>

CacheInsertDamageEventsBatch ==
    \E events \in CacheBatches :
        /\ data_store.next_event_id + Len(events) <= MaxEvents + 1
        /\ data_store' = insert_damage_events_batch(data_store, events)
        /\ api' = Answered("insert_damage_events_batch", NoEvent,
                           [NoArg EXCEPT !.data = events], Len(events), <<>>)
        /\ UNCHANGED <<parser, line, file_position, loader, file, gui>>

CacheClearAllData ==
    /\ \E r \in {clear_all_data(data_store)} :
          /\ data_store' = r.ds
          /\ api' = [Answered("clear_all_data", NoEvent, NoArg, 0, <<>>)
                        EXCEPT !.raised = r.raised]
    /\ UNCHANGED <<parser, line, file_position, loader, file, gui>>

NextCache ==
    \/ CacheInsertDamageEvent
    \/ CacheInsertDamageEventsBatch
    \/ CacheClearAllData
    \/ CallGetDamageByZone
    \/ CallGetDamageByZones

SpecCache == InitQuery /\ [][NextCache]_vars

----------------------------------------------------------------------------
(* Two threads on one store.  An ingestion thread (the monitor's or the
   loader's) is inside insert_damage_event or inside _flush_batch, one step
   per stretch it runs without giving up the store's lock; the GUI thread
   runs its handlers "Clear All Data" and "Refresh" of the zone-runs view.
   api holds the call the ingestion thread is in: its ret is Pending until
   the call returns, and its result holds the locals of the call. *)

Pending == -3

ThreadEvents ==
    {QueryEvent(1, "Al", 42, 5, 0, 2, "Ann"),
     QueryEvent(1, "Bo", 42, 0, 3, 2, "Ann"),
     QueryEvent(1, "Al", 43, 0, 0, 31, "Ann")}

(* parser.pending_events at a flush: events with a zone id and distinct keys *)
ThreadBatches ==
    {<<e>> : e \in {f \in ThreadEvents : has_damage(f)}}
      \cup {<<QueryEvent(1, "Al", 42, 5, 0, 2, "Ann"), QueryEvent(1, "Bo", 42, 0, 3, 2, "Ann")>>}

InitThreads ==
    /\ data_store = create_zone_entry(EmptyStore, "AreaA", "Ann", Midnight + 2, Today).ds
    /\ parser = set_log_date(NewParser(Today), Today)
    /\ line = OtherLine
    /\ file_position = 0
    /\ loader = IdleLoader
    /\ file = <<>>
    /\ api = NoCall
    /\ gui = NoGui

InCall == api.ret = Pending

(* the ingestion thread is inside the lock of insert_damage_events_batch *)
LockHeld == InCall /\ api.op = "insert_damage_events_batch"

(* insert_damage_event up to its own lock: the 0/0 test, and the player
   looked up or created by get_or_create_player under that method's lock *)
ThreadInsertDamageEvent ==
    \E e \in ThreadEvents :
        /\ ~InCall
        /\ data_store.next_event_id <= MaxEvents
        /\ data_store.next_player_id <= MaxPlayerId
        /\ IF e.health_dmg = 0 /\ e.armor_dmg = 0
           THEN /\ data_store' = data_store
                /\ api' = Answered("insert_damage_event", e,
                                   [NoArg EXCEPT !.id = e.zone_id], Rejected, <<>>)
           ELSE \E got \in {get_or_create_player(data_store, e.player_name)} :
                   /\ data_store' = got.ds
                   /\ api' = Answered("insert_damage_event", e,
                                      [NoArg EXCEPT !.id = e.zone_id], Pending,
                                      <<got.ret>>)
        /\ UNCHANGED <<parser, line, file_position, loader, file, gui>>

(* insert_damage_event inside its lock, with the player id it holds *)
ThreadInsertAppends ==
    /\ InCall
    /\ api.op = "insert_damage_event"
    /\ data_store' = event_appended(data_store, api.event, api.arg.id, api.result[1])
    /\ api' = [api EXCEPT !.ret = data_store.next_event_id]
    /\ UNCHANGED <<parser, line, file_position, loader, file, gui>>

(* the tuples _flush_batch makes of the pending events and the player ids *)
events_to_insert(pending, player_ids) ==
    [i \in DOMAIN pending |->
        <<pending[i].zone_id, player_ids[pending[i].player_name], pending[i]>>]

(* _flush_batch up to its call of insert_damage_events_batch: the players
   are looked up or created under the lock of get_or_create_players_batch *)
ThreadFlushBatch ==
    \E pending \in ThreadBatches :
      \E order \in Orders({pending[i].player_name : i \in DOMAIN pending}) :
        /\ ~InCall
        /\ data_store.next_event_id + Len(pending) <= MaxEvents + 1
        /\ data_store.next_player_id + Len(order) <= MaxPlayerId + 1
        /\ \E ds \in {get_or_create_players_batch(data_store, order)} :
              /\ data_store' = ds
              /\ api' = Answered("_flush_batch", NoEvent,
                                 [NoArg EXCEPT !.data =
                                     events_to_insert(pending, ds.player_name_to_id)],
                                 Pending, <<>>)
        /\ UNCHANGED <<parser, line, file_position, loader, file, gui>>

(* insert_damage_events_batch takes the lock *)
ThreadBatchLocks ==
    /\ InCall
    /\ api.op = "_flush_batch"
    /\ api' = [api EXCEPT !.op = "insert_damage_events_batch", !.result = api.arg.data]
    /\ UNCHANGED <<data_store, parser, line, file_position, loader, file, gui>>

(* one iteration of its loop *)
ThreadBatchAppends ==
    /\ LockHeld
    /\ api.result # <<>>
    /\ data_store' = batch_appended(data_store, <<Head(api.result)>>)
    /\ api' = [api EXCEPT !.result = Tail(@)]
    /\ UNCHANGED <<parser, line, file_position, loader, file, gui>>

(* the end of the loop: the cache is invalidated, the lock released *)
ThreadBatchReturns ==
    /\ LockHeld
    /\ api.result = <<>>
    /\ data_store' = invalidate_events_cache(data_store)
    /\ api' = [api EXCEPT !.ret = Len(api.arg.data)]
    /\ UNCHANGED <<parser, line, file_position, loader, file, gui>>

(* DamageParserGUI._clear_all_data, confirmed: clear_all_data waits for the
   lock and raises out of the handler *)
GuiClearAllData ==
    /\ ~gui.refreshing
    /\ ~LockHeld
    /\ data_store' = clear_all_data(data_store).ds
    /\ UNCHANGED <<parser, line, file_position, loader, file, api, gui>>

(* get_all_zone_instances without filters: the zone ids, newest first *)
get_all_zone_instances(ds) ==
    [i \in 1..Len(ds.zones_list) |-> ds.zones_list[Len(ds.zones_list) + 1 - i].zone_id]

(* _refresh_zone_runs up to its loop: the tree is emptied, the instances
   are read under the lock *)
RefreshZoneRuns ==
    /\ ~gui.refreshing
    /\ ~LockHeld
    /\ gui' = [gui EXCEPT !.refreshing = TRUE, !.zones_tree = <<>>,
                          !.instances = get_all_zone_instances(data_store)]
    /\ UNCHANGED <<data_store, parser, line, file_position, loader, file, api>>

(* one iteration of its loop: _get_zone_stats, which takes no lock, and the
   row of the instance *)
RefreshRow ==
    /\ gui.refreshing
    /\ gui.instances # <<>>
    /\ gui' = [gui EXCEPT
                 !.zones_tree = Append(@, [zone_id |-> Head(gui.instances),
                                           stats |-> get_zone_stats(data_store,
                                                                    Head(gui.instances))]),
                 !.instances = Tail(@)]
    /\ UNCHANGED <<data_store, parser, line, file_position, loader, file, api>>

(* after the loop: get_unique_zone_names under the lock *)
RefreshReturns ==
    /\ gui.refreshing
    /\ gui.instances = <<>>
    /\ ~LockHeld
    /\ gui' = [gui EXCEPT !.refreshing = FALSE]
    /\ UNCHANGED <<data_store, parser, line, file_position, loader, file, api>>

NextThreads ==
    \/ ThreadInsertDamageEvent
    \/ ThreadInsertAppends
    \/ ThreadFlushBatch
    \/ ThreadBatchLocks
    \/ ThreadBatchAppends
    \/ ThreadBatchReturns
    \/ GuiClearAllData
    \/ RefreshZoneRuns
    \/ RefreshRow
    \/ RefreshReturns

SpecThreads == InitThreads /\ [][NextThreads]_vars

----------------------------------------------------------------------------
(* A log of six lines read line by line by a streaming parser on an empty
   store, with zone queries in between:
     [10:00:00] ...LOADING LEVEL (AreaForest)
     [10:00:05] ProcessTalkScreen(42, Search Corpse of Wolf, ...)
     [10:00:05] Alice: 50 health dmg 10 armor dmg Aggro (at death): 100.0%
     [10:00:06] Bob: 30 health dmg
     [10:00:10] ProcessTalkScreen(43, Search Corpse of Bear, ...)
     [10:00:10] Alice: 100 health dmg
   The zone name is written with or without the parentheses, and the damage
   reports with or without the [HH:MM:SS] prefix. *)

TenOClock == 36000

Stamp(prefixed, seconds) == IF prefixed THEN TenOClock + seconds ELSE NoTime

ScenarioLines(zone_text, prefixed) ==
    <<ZoneLine(TenOClock, zone_text),
      CorpseLine(TenOClock + 5, <<42, "Wolf">>),
      DamageLine(Stamp(prefixed, 5), "Alice", 50, 10),
      DamageLine(Stamp(prefixed, 6), "Bob", 30, Absent),
      CorpseLine(TenOClock + 10, <<43, "Bear">>),
      DamageLine(Stamp(prefixed, 10), "Alice", 100, Absent)>>

ZoneTexts == {"AreaForest", "(AreaForest)"}

InitScenario ==
    /\ data_store = EmptyStore
    /\ parser = set_log_date(NewParser(Today), Today)
    /\ line = OtherLine
    /\ file_position = 0
    /\ loader = IdleLoader
    /\ \E zone_text \in ZoneTexts, prefixed \in BOOLEAN :
          file = ScenarioLines(zone_text, prefixed)
    /\ api = NoCall
    /\ gui = NoGui

(* the next line of the log goes through parse_line; what a query answered
   before is out of date *)
ScenarioLine ==
    /\ file_position < Len(file)
    /\ \E r \in {parse_line(parser, data_store, file[file_position + 1], Now, <<>>)} :
          /\ parser' = r.parser
          /\ data_store' = r.ds
    /\ line' = file[file_position + 1]
    /\ file_position' = file_position + 1
    /\ api' = NoCall
    /\ UNCHANGED <<loader, file, gui>>

ScenarioDamageByZone ==
    \E zone_id \in 1..2 :
        \E results \in get_damage_by_zone(data_store, zone_id) :
            /\ api' = Answered("get_damage_by_zone", NoEvent,
                               [NoArg EXCEPT !.ids = {zone_id}], 0, results)
            /\ data_store' = get_events_df(data_store)
            /\ UNCHANGED <<parser, line, file_position, loader, file, gui>>

ScenarioCombatTimes ==
    \E zone_id \in 1..2 :
        /\ api' = Answered("get_zone_combat_times", NoEvent,
                           [NoArg EXCEPT !.ids = {zone_id}], 0,
                           get_zone_combat_times(data_store, zone_id))
        /\ data_store' = get_events_df(data_store)
        /\ UNCHANGED <<parser, line, file_position, loader, file, gui>>

NextScenario == ScenarioLine \/ ScenarioDamageByZone \/ ScenarioCombatTimes

SpecScenario == InitScenario /\ [][NextScenario]_vars

----------------------------------------------------------------------------
(* group_damage_by_alias, applied to lists of query rows *)

new_group(key) ==
    [display_name |-> key, player_ids |-> <<>>, original_names |-> <<>>,
     health_dmg |-> 0, armor_dmg |-> 0, total_dmg |-> 0, kills |-> 0,
     first_hit |-> NoTime, last_hit |-> NoTime]

(* mutant: the damage of a row replaces what the group had *)
row_added_last_wins(g, d) ==
    [g EXCEPT !.player_ids = Append(@, d.player_id),
              !.original_names = Append(@, d.original_name),
              !.health_dmg = d.health_dmg,
              !.armor_dmg = d.armor_dmg,
              !.total_dmg = d.total_dmg,
              !.kills = @ + d.kills,
              !.first_hit = IF d.first_hit # NoTime /\ (@ = NoTime \/ d.first_hit < @)
                            THEN d.first_hit ELSE @,
              !.last_hit = IF d.last_hit # NoTime /\ (@ = NoTime \/ d.last_hit > @)
                           THEN d.last_hit ELSE @]

(* the body of the loop for row d, on its group g *)
row_added(g, d) ==
    [g EXCEPT !.player_ids = Append(@, d.player_id),
              !.original_names = Append(@, d.original_name),
              !.health_dmg = @ + d.health_dmg,
              !.armor_dmg = @ + d.armor_dmg,
              !.total_dmg = @ + d.total_dmg,
              !.kills = @ + d.kills,
              !.first_hit = IF d.first_hit # NoTime /\ (@ = NoTime \/ d.first_hit < @)
                            THEN d.first_hit ELSE @,
              !.last_hit = IF d.last_hit # NoTime /\ (@ = NoTime \/ d.last_hit > @)
                           THEN d.last_hit ELSE @]

(* grouped is a dict: its values come in the order the keys were inserted *)
keys(grouped) == {grouped[j].display_name : j \in 1..Len(grouped)}

key_index(grouped, key) == CHOOSE j \in 1..Len(grouped) : grouped[j].display_name = key

row_grouped(grouped, d) ==
    IF d.display_name \in keys(grouped)
    THEN [grouped EXCEPT ![key_index(grouped, d.display_name)] = row_added(@, d)]
    ELSE Append(grouped, row_added(new_group(d.display_name), d))

RECURSIVE grouped_rows(_, _)
grouped_rows(data, n) ==
    IF n = 0 THEN <<>> ELSE row_grouped(grouped_rows(data, n - 1), data[n])

(* list.sort(key=total_dmg, reverse=True) is stable: g goes behind every
   element that is not smaller *)
inserted_at(sorted, g, k) == SubSeq(sorted, 1, k) \o <<g>> \o SubSeq(sorted, k + 1, Len(sorted))

inserted(sorted, g) ==
    inserted_at(sorted, g,
                Cardinality({j \in 1..Len(sorted) : sorted[j].total_dmg >= g.total_dmg}))

RECURSIVE sorted_by_total(_, _)
sorted_by_total(result, n) ==
    IF n = 0 THEN <<>> ELSE inserted(sorted_by_total(result, n - 1), result[n])

(* mutant: the groups stay in the order of their first rows *)
group_damage_by_alias_unsorted(data) == grouped_rows(data, Len(data))

group_damage_by_alias(data) ==
    IF data = <<>> THEN <<>>
    ELSE sorted_by_total(grouped_rows(data, Len(data)), Len(grouped_rows(data, Len(data))))

MaxRows == 3

QueryRow(pid, name, alias, health, armor, kills, first, last) ==
    [player_id |-> pid, original_name |-> name, alias |-> alias,
     display_name |-> IF alias = NoName THEN name ELSE alias,
     health_dmg |-> health, armor_dmg |-> armor, total_dmg |-> health + armor,
     kills |-> kills, first_hit |-> Midnight + first, last_hit |-> Midnight + last]

(* rows as the queries return them, one per player; Al and Bo share an alias *)
QueryRows ==
    {QueryRow(1, "Al", "Ace", 5, 0, 1, 2, 31),
     QueryRow(2, "Bo", "Ace", 2, 1, 1, 31, 32),
     QueryRow(3, "Cy", NoName, 5, 3, 2, 2, 2),
     QueryRow(4, "Di", NoName, 0, 8, 1, 32, 32),
     QueryRow(5, "Ed", NoName, 1, 0, 1, 31, 31),
     QueryRow(6, "Flo", "Di", 2, 2, 2, 2, 32),
     [QueryRow(7, "Gus", "Ace", 1, 1, 1, 2, 2) EXCEPT !.first_hit = NoTime,
                                                      !.last_hit = NoTime]}

permuted(data, order) == [k \in 1..Len(data) |-> data[order[k]]]

InitGroup ==
    /\ data_store = EmptyStore
    /\ parser = set_log_date(NewParser(Today), Today)
    /\ line = OtherLine
    /\ file_position = 0
    /\ loader = IdleLoader
    /\ file = <<>>
    /\ api = NoCall
    /\ gui = NoGui

(* the function is applied to a list of rows of distinct players *)
CallGroupDamageByAlias ==
    \E rows \in SUBSET QueryRows :
        /\ Cardinality(rows) <= MaxRows
        /\ \E data \in Orders(rows) :
              api' = Answered("group_damage_by_alias", NoEvent,
                              [NoArg EXCEPT !.data = data], 0,
                              group_damage_by_alias(data))
        /\ UNCHANGED <<data_store, parser, line, file_position, loader, file, gui>>

NextGroup == CallGroupDamageByAlias

SpecGroup == InitGroup /\ [][NextGroup]_vars

----------------------------------------------------------------------------
(* The GUI: imports started from the menu, the LogMonitor it starts and
   stops, and the threads of both, on the one store.  The handlers of the
   GUI run on one thread: while one of them is inside monitor.stop(), no
   other handler runs. *)

MaxErrors == 1         \* the monitored file is found missing at most this often

BadTime == 25 * 3600 + 61 * 60 + 61       \* the text 25:61:61

GuiLines == {CorpseLine(2, <<42, "Wolf">>), DamageLine(NoTime, "Al", 5, Absent)}

InitGui ==
    /\ data_store = EmptyStore
    /\ parser = NewParser(Today)
    /\ line = OtherLine
    /\ file_position = 0
    /\ loader = IdleLoader
    /\ file = <<>>
    /\ api = NoCall
    /\ gui = NoGui

GuiIdle == gui.joining = "no"

(* an active thread of a monitor: started and not returned *)
alive(m) == m.pc \in {"open", "loop", "parse"}

(* BackgroundLoader.load_file *)
load_file(l) == [l EXCEPT !.pc = "start", !.cancel_requested = FALSE, !.runs = @ + 1]

(* mutant: a request made while a load is active starts a worker as well *)
load_requested_unguarded(g, l) ==
    IF g.monitor # NoMonitor /\ ~g.loading_active
    THEN [gui |-> [g EXCEPT !.monitor.running = FALSE, !.joining = "load"], loader |-> l]
    ELSE [gui |-> [g EXCEPT !.loading_active = TRUE], loader |-> load_file(l)]

(* _load_file_background for a file that exists, up to monitor.stop() when
   there is a monitor, and to the end otherwise *)
load_requested(g, l) ==
    IF g.loading_active
    THEN [gui |-> [g EXCEPT !.warned = TRUE], loader |-> l]
    ELSE IF g.monitor # NoMonitor
    THEN [gui |-> [g EXCEPT !.monitor.running = FALSE, !.joining = "load"], loader |-> l]
    ELSE [gui |-> [g EXCEPT !.loading_active = TRUE], loader |-> load_file(l)]

(* _import_log_file: _load_file_background with monitor_after = False *)
LoadFileBackground ==
    /\ GuiIdle
    /\ loader.runs < MaxRuns
    /\ \E r \in {load_requested(gui, loader)} :
          /\ gui' = r.gui
          /\ loader' = r.loader
    /\ UNCHANGED <<data_store, parser, line, file_position, file, api>>

(* _cancel_load *)
CancelLoad == GuiIdle /\ Cancel

(* _on_load_complete with monitor_after = False, scheduled by the worker's
   complete_callback: on failure it goes on into _start_monitoring *)
started_parser(p, ds, g) ==
    IF g.current_character = NoName THEN set_log_date(p, Today)
    ELSE IF get_current_zone_id(ds, g.current_character) = NoId
    THEN [set_log_date(p, Today) EXCEPT !.current_character = g.current_character]
    ELSE [set_log_date(p, Today) EXCEPT
            !.current_character = g.current_character,
            !.current_zone_id = get_current_zone_id(ds, g.current_character),
            !.current_zone = IF g.current_zone = NoName THEN @
                             ELSE [name |-> g.current_zone, entered_time |-> Now,
                                   character_name |-> g.current_character]]

started_gui(ds, g) ==
    [g EXCEPT !.monitor = [running |-> TRUE, pc |-> "open", line |-> OtherLine],
              !.current_zone_id =
                 IF g.current_character = NoName
                    \/ get_current_zone_id(ds, g.current_character) = NoId
                 THEN @ ELSE get_current_zone_id(ds, g.current_character)]

OnLoadComplete ==
    /\ GuiIdle
    /\ gui.loading_active
    /\ loader.pc = "done"
    /\ \E done \in {loader.completions[Len(loader.completions)]} :
         \E g \in {[gui EXCEPT !.loading_active = FALSE]} :
          IF done.success
          THEN /\ gui' = [g EXCEPT
                            !.current_character =
                               IF loader.parser.current_character # NoName
                               THEN loader.parser.current_character ELSE @,
                            !.current_zone =
                               IF loader.parser.current_zone # NoZone
                               THEN loader.parser.current_zone.name ELSE @]
               /\ parser' = parser
          ELSE /\ gui' = started_gui(data_store, g)
               /\ parser' = started_parser(parser, data_store, g)
    /\ UNCHANGED <<data_store, line, file_position, loader, file, api>>

(* _toggle_monitoring while not monitoring: _start_monitoring; the button is
   disabled while a load is active *)
StartMonitoring ==
    /\ GuiIdle
    /\ ~gui.loading_active
    /\ gui.monitor = NoMonitor
    /\ gui' = started_gui(data_store, gui)
    /\ parser' = started_parser(parser, data_store, gui)
    /\ UNCHANGED <<data_store, line, file_position, loader, file, api>>

(* _toggle_monitoring while monitoring: _stop_monitoring, up to the join
   inside LogMonitor.stop.  The model keeps one monitor the GUI has let go
   of, so the next stop waits until that one's thread is gone. *)
StopMonitoring ==
    /\ GuiIdle
    /\ ~gui.loading_active
    /\ gui.monitor # NoMonitor
    /\ ~alive(gui.old)
    /\ gui' = [gui EXCEPT !.monitor.running = FALSE, !.joining = "stop"]
    /\ UNCHANGED <<data_store, parser, line, file_position, loader, file, api>>

(* LogMonitor.stop: thread.join(timeout=2) returns, because the thread has
   ended or because two seconds have passed, and the handler that called
   stop() runs to its end *)
JoinReturns ==
    /\ gui.joining # "no"
    /\ \E g \in {[gui EXCEPT !.monitor = NoMonitor, !.joining = "no",
                             !.old = IF alive(gui.monitor) THEN gui.monitor ELSE @]} :
          IF gui.joining = "load"
          THEN /\ gui' = [g EXCEPT !.loading_active = TRUE]
               /\ loader' = load_file(loader)
          ELSE /\ gui' = g
               /\ loader' = loader
    /\ UNCHANGED <<data_store, parser, line, file_position, file, api>>

(* mutant: the thread reports the missing file and enters the loop all the
   same *)
MonitorOpenGoesOn(s) ==
    /\ gui[s].pc = "open"
    /\ \E exists \in {TRUE} \cup {FALSE : k \in 1..(MaxErrors - gui.errors)} :
          gui' = IF exists THEN [gui EXCEPT ![s].pc = "loop"]
                 ELSE [gui EXCEPT ![s].pc = "loop", !.errors = @ + 1]
    /\ UNCHANGED <<data_store, parser, line, file_position, loader, file, api>>

(* _monitor_loop of the monitor in gui[s], up to the loop: the file is there
   or it is not *)
MonitorOpen(s) ==
    /\ gui[s].pc = "open"
    /\ \E exists \in {TRUE} \cup {FALSE : k \in 1..(MaxErrors - gui.errors)} :
          gui' = IF exists THEN [gui EXCEPT ![s].pc = "loop"]
                 ELSE [gui EXCEPT ![s] = IF s = "old" THEN NoMonitor
                                          ELSE [@ EXCEPT !.pc = "ended"],
                                  !.errors = @ + 1]
    /\ UNCHANGED <<data_store, parser, line, file_position, loader, file, api>>

(* _monitor_loop, the test of the loop fails and the thread returns; nothing
   is left of a monitor the GUI has let go of *)
MonitorExit(s) ==
    /\ gui[s].pc = "loop"
    /\ ~gui[s].running
    /\ gui' = [gui EXCEPT ![s] = IF s = "old" THEN NoMonitor ELSE [@ EXCEPT !.pc = "ended"]]
    /\ UNCHANGED <<data_store, parser, line, file_position, loader, file, api>>

(* _monitor_loop, the test of the loop passes and readline returns a line *)
MonitorReadline(s) ==
    /\ gui[s].pc = "loop"
    /\ gui[s].running
    /\ file_position < MaxLines
    /\ WithinBudget
    /\ \E l \in GuiLines : gui' = [gui EXCEPT ![s].pc = "parse", ![s].line = l]
    /\ UNCHANGED <<data_store, parser, line, file_position, loader, file, api>>

(* _monitor_loop, parse_line on the line read, whatever it raises is dropped *)
MonitorParse(s) ==
    /\ gui[s].pc = "parse"
    /\ \E r \in {parse_line(parser, data_store, gui[s].line, Now, <<>>)} :
          /\ parser' = r.parser
          /\ data_store' = r.ds
    /\ line' = gui[s].line
    /\ file_position' = file_position + 1
    /\ gui' = [gui EXCEPT ![s].pc = "loop", ![s].line = OtherLine]
    /\ UNCHANGED <<loader, file, api>>

MonitorThread(s) == MonitorOpen(s) \/ MonitorExit(s) \/ MonitorReadline(s) \/ MonitorParse(s)

(* _load_worker, os.path.getsize raises: the file is gone *)
WorkerFileMissing ==
    /\ loader.pc = "start"
    /\ loader' = [loader EXCEPT !.pc = "done",
                    !.completions = Append(@, completion(FALSE, "Error", 0, 0, data_store))]
    /\ UNCHANGED <<data_store, parser, line, file_position, file, api, gui>>

WorkerReadsGui == WorkerReads(GuiLines)

NextGui ==
    \/ LoadFileBackground
    \/ CancelLoad
    \/ OnLoadComplete
    \/ StartMonitoring
    \/ StopMonitoring
    \/ JoinReturns
    \/ MonitorThread("monitor")
    \/ MonitorThread("old")
    \/ WorkerStart
    \/ WorkerFileMissing
    \/ WorkerCancelled
    \/ WithinBudget /\ WorkerReadsGui
    \/ WorkerEndOfFile
    \/ WorkerFinish

SpecGui == InitGui /\ [][NextGui]_vars

----------------------------------------------------------------------------
(* The loader alone: load_file and cancel called by the GUI, and the worker
   thread, which the scheduler lets run: whenever the worker can take a step
   it eventually takes one.  The file is finite: it has at most MaxFileLen
   lines.  WorkerFinish is enabled exactly where pc is "finalize" and every
   step of it leaves "finalize", so weak fairness of it is the formula
   []<>(pc # "finalize"), written out in SpecLoad. *)

LoadLines == {CorpseLine(2, <<42, "Wolf">>), DamageLine(NoTime, "Al", 5, Absent)}

WorkerReadsLoad == WorkerReads(LoadLines)

WorkerInLoop ==
    \/ WorkerStart
    \/ WorkerFileMissing
    \/ WorkerCancelled
    \/ WorkerReadsLoad
    \/ WorkerEndOfFile

NextLoad == LoadFile \/ Cancel \/ WorkerInLoop \/ WorkerFinish

SpecLoad ==
    /\ Init
    /\ [][NextLoad]_vars
    /\ WF_vars(WorkerInLoop)
    /\ []<>(loader.pc # "finalize")

----------------------------------------------------------------------------
(* Properties of the store under direct calls, checked under SpecStore *)

(* the step is a direct call of the store method op *)
CallStep(op) == api'.calls = api.calls + 1 /\ api'.op = op

PlayerRecords == {data_store.players_list[i] : i \in 1..Len(data_store.players_list)}

(* C11 as stated: clear_all_data returns normally and leaves the four
   collections and the lookup indices empty and the three counters at 1. *)
C11_ClearResetsStore ==
    [][CallStep("clear_all_data")
        => /\ ~api'.raised
           /\ data_store'.players_list = <<>> /\ data_store'.zones_list = <<>>
           /\ data_store'.events_list = <<>> /\ data_store'.wisdom_list = <<>>
           /\ DOMAIN data_store'.player_name_to_id = {}
           /\ DOMAIN data_store'.player_id_to_info = {}
           /\ DOMAIN data_store'.zone_id_to_info = {}
           /\ data_store'.next_player_id = 1
           /\ data_store'.next_zone_id = 1
           /\ data_store'.next_event_id = 1]_vars

(* every player record carries the alias the mapping has for its name *)
AliasesAgree ==
    \A p \in PlayerRecords :
        /\ p.alias = dict_get(data_store.aliases, p.original_name, NoName)
        /\ data_store.player_id_to_info[p.player_id].alias = p.alias

(* C12: clear_all_data leaves the name-to-alias mapping as it is, and a
   player created afterwards gets the alias the mapping has for its name,
   which is the one update_player_alias last set for that name. *)
C12_ClearKeepsAliases ==
    /\ []AliasesAgree
    /\ [][CallStep("clear_all_data") => data_store'.aliases = data_store.aliases]_vars
    /\ [][(/\ CallStep("update_player_alias")
           /\ api'.arg.id \in DOMAIN data_store.player_id_to_info
           /\ api'.arg.alias # "")
          => dict_get(data_store'.aliases,
                      data_store.player_id_to_info[api'.arg.id].name, NoName)
               = api'.arg.alias]_vars
    /\ [][(/\ CallStep("get_or_create_player")
           /\ api'.arg.name \notin DOMAIN data_store.player_name_to_id)
          => /\ Len(data_store'.players_list) = Len(data_store.players_list) + 1
             /\ LET new == data_store'.players_list[Len(data_store'.players_list)]
                IN /\ new.original_name = api'.arg.name
                   /\ new.player_id = api'.ret
                   /\ new.alias = dict_get(data_store.aliases, api'.arg.name, NoName)]_vars

(* C12 witness: Al got the alias Ace, the store was cleared, and Al, seen
   again, is a new player with the alias Ace *)
C12_Witness ==
    /\ api.op = "get_or_create_player"
    /\ api.arg.name = "Al"
    /\ api.ret = 2
    /\ data_store.players_list =
          <<[player_id |-> 2, original_name |-> "Al", alias |-> "Ace"]>>

(* C13: there is one player record per original name; a call for a known
   name returns the id the name got at its first sighting and changes
   nothing; and no call but clear_all_data takes a name out of the index or
   changes its id. *)
C13_OnePlayerPerName ==
    /\ [](/\ \A i, j \in 1..Len(data_store.players_list) :
                data_store.players_list[i].original_name
                   = data_store.players_list[j].original_name => i = j
          /\ DOMAIN data_store.player_name_to_id
                = {p.original_name : p \in PlayerRecords}
          /\ \A p \in PlayerRecords :
                data_store.player_name_to_id[p.original_name] = p.player_id)
    /\ [][(/\ CallStep("get_or_create_player")
           /\ api'.arg.name \in DOMAIN data_store.player_name_to_id)
          => /\ api'.ret = data_store.player_name_to_id[api'.arg.name]
             /\ data_store' = data_store]_vars
    /\ [][CallStep("get_or_create_players_batch")
          => /\ DOMAIN api'.result = api'.arg.names
             /\ \A n \in api'.arg.names :
                   /\ api'.result[n] = data_store'.player_name_to_id[n]
                   /\ n \in DOMAIN data_store.player_name_to_id
                        => api'.result[n] = data_store.player_name_to_id[n]]_vars
    /\ [][~CallStep("clear_all_data")
          => \A n \in DOMAIN data_store.player_name_to_id :
                /\ n \in DOMAIN data_store'.player_name_to_id
                /\ data_store'.player_name_to_id[n] = data_store.player_name_to_id[n]]_vars

(* C13 witness: Bo was created by a batch call, Al by a single call, and a
   later batch call for both names returned the two ids *)
C13_Witness ==
    /\ api.op = "get_or_create_players_batch"
    /\ api.arg.names = {"Al", "Bo"}
    /\ Len(data_store.players_list) = 2
    /\ data_store.players_list[1].original_name = "Bo"
    /\ api.result["Bo"] = 1 /\ api.result["Al"] = 2
    /\ api.calls = 3

(* C14: update_player_alias for an id the store does not know changes
   nothing in the store, the alias mapping included, and raises nothing. *)
C14_UnknownIdIsNoOp ==
    [][(/\ CallStep("update_player_alias")
        /\ api'.arg.id \notin DOMAIN data_store.player_id_to_info)
       => data_store' = data_store /\ ~api'.raised]_vars

(* C14 witness: with a player and an alias in the store, an alias was given
   for an id that is not a player's *)
C14_Witness ==
    /\ api.op = "update_player_alias"
    /\ api.arg.alias = "Ace"
    /\ data_store.players_list # <<>>
    /\ DOMAIN data_store.aliases # {}
    /\ api.arg.id \notin DOMAIN data_store.player_id_to_info

(* the index of the zone instance the character has open before the step *)
OpenBefore(c) == open_zone(data_store, c)

(* C16: create_zone_entry for a character whose open instance has another
   name gives that instance the new entry time as its exit time, appends an
   open instance with an id no instance had, and leaves every other instance
   as it was; and no call but clear_all_data removes a zone instance. *)
C16_ZoneChangeClosesAndOpens ==
    /\ [][(/\ CallStep("create_zone_entry")
           /\ OpenBefore(api'.arg.character) # 0
           /\ data_store.zones_list[OpenBefore(api'.arg.character)].name # api'.arg.name)
          => /\ Len(data_store'.zones_list) = Len(data_store.zones_list) + 1
             /\ \A j \in 1..Len(data_store.zones_list) :
                   data_store'.zones_list[j] =
                      IF j = OpenBefore(api'.arg.character)
                      THEN [data_store.zones_list[j] EXCEPT !.left_time = api'.arg.start]
                      ELSE data_store.zones_list[j]
             /\ LET new == data_store'.zones_list[Len(data_store'.zones_list)]
                IN /\ new.name = api'.arg.name
                   /\ new.character_name = api'.arg.character
                   /\ new.entered_time = api'.arg.start
                   /\ new.left_time = NoTime
                   /\ new.zone_id = api'.ret
                   /\ new.zone_id \notin DOMAIN data_store.zone_id_to_info
                   /\ \A z \in ZoneRecords : z.zone_id # new.zone_id]_vars
    /\ [][~CallStep("clear_all_data")
          => /\ Len(data_store'.zones_list) >= Len(data_store.zones_list)
             /\ \A j \in 1..Len(data_store.zones_list) :
                   data_store'.zones_list[j].zone_id = data_store.zones_list[j].zone_id]_vars

(* C16 witness: while Bea has a zone open, Ann has left AreaA for AreaB *)
C16_Witness ==
    /\ api.op = "create_zone_entry"
    /\ api.arg.character = "Ann"
    /\ Len(data_store.zones_list) = 3
    /\ data_store.zones_list[1].character_name = "Ann"
    /\ data_store.zones_list[1].name = "AreaA"
    /\ data_store.zones_list[1].left_time = api.arg.start
    /\ data_store.zones_list[2].character_name = "Bea"
    /\ data_store.zones_list[2].left_time = NoTime
    /\ data_store.zones_list[3] =
          [zone_id |-> 3, name |-> "AreaB", character_name |-> "Ann",
           entered_time |-> api.arg.start, left_time |-> NoTime,
           log_date |-> api.arg.start \div SecondsPerDay]

----------------------------------------------------------------------------
(* Properties of the aggregate queries, checked under SpecQuery.  api holds
   the last call and what it returned; a call that changes the store replaces
   it, so the result of a query stands next to the store it was asked of. *)

DamageQueries == {"get_damage_by_zone", "get_damage_by_zones", "get_damage_in_time_range"}

StoredEvents == {data_store.events_list[i] : i \in 1..Len(data_store.events_list)}

Results == {api.result[k] : k \in 1..Len(api.result)}

RECURSIVE SumOf(_, _)
SumOf(events, col) ==
    IF events = {} THEN 0
    ELSE LET e == CHOOSE e \in events : TRUE
         IN e[col] + SumOf(events \ {e}, col)

(* the result has one row per player of the events, and each row holds that
   player's sums, distinct targets and first and last time *)
AggregatesOf(events) ==
    /\ {r.player_id : r \in Results} = {e.player_id : e \in events}
    /\ Cardinality(Results) = Len(api.result)
    /\ \A r \in Results :
          LET mine == {e \in events : e.player_id = r.player_id}
          IN /\ r.health_dmg = SumOf(mine, "health_dmg")
             /\ r.armor_dmg = SumOf(mine, "armor_dmg")
             /\ r.total_dmg = r.health_dmg + r.armor_dmg
             /\ r.kills = Cardinality({e.npc_id : e \in mine})
             /\ \E e \in mine : e.timestamp = r.first_hit
             /\ \E e \in mine : e.timestamp = r.last_hit
             /\ \A e \in mine : r.first_hit <= e.timestamp /\ e.timestamp <= r.last_hit

(* C15: the alias a known player got by update_player_alias (none for the
   empty alias) stays in the store until the next update_player_alias, the
   update leaves the events as they are, and every row of every aggregate
   query carries the alias the store has for the player at the time of the
   query, with the alias as display name, or the original name when there is
   no alias. *)
C15_QueriesShowAlias ==
    /\ [](api.op = "update_player_alias" /\ api.arg.id \in DOMAIN data_store.player_id_to_info
            => data_store.player_id_to_info[api.arg.id].alias
                  = IF api.arg.alias = "" THEN NoName ELSE api.arg.alias)
    /\ [][api'.op = "update_player_alias"
            => data_store'.events_list = data_store.events_list]_vars
    /\ [][api'.op # "update_player_alias"
            => \A id \in DOMAIN data_store.player_id_to_info :
                  /\ id \in DOMAIN data_store'.player_id_to_info
                  /\ data_store'.player_id_to_info[id] = data_store.player_id_to_info[id]]_vars
    /\ [](api.op \in DamageQueries
            => \A r \in Results :
                  /\ r.player_id \in DOMAIN data_store.player_id_to_info
                  /\ r.original_name = data_store.player_id_to_info[r.player_id].name
                  /\ r.alias = data_store.player_id_to_info[r.player_id].alias
                  /\ r.display_name = IF r.alias = NoName THEN r.original_name ELSE r.alias)

(* C15 witness: Al, whose events were in the store before the alias Ace was
   given, is shown as Ace by a zone query, next to Bo without alias *)
C15_Witness ==
    /\ api.op = "get_damage_by_zone"
    /\ Len(api.result) = 2
    /\ \E r \in Results :
          r.original_name = "Al" /\ r.alias = "Ace" /\ r.display_name = "Ace"
    /\ \E r \in Results :
          r.original_name = "Bo" /\ r.alias = NoName /\ r.display_name = "Bo"

(* C17: the query by zone id, or by a set of zone ids, returns for the
   stored events of these zones one row per player with the sums of health
   and armor damage, their sum as total, the number of distinct target ids,
   the first and the last timestamp, the rows in descending order of total. *)
C17_ZoneQueryAggregates ==
    api.op \in {"get_damage_by_zone", "get_damage_by_zones"}
      => /\ AggregatesOf({e \in StoredEvents : e.zone_id \in api.arg.ids})
         /\ \A k \in 1..(Len(api.result) - 1) :
               api.result[k].total_dmg >= api.result[k + 1].total_dmg

(* C17 witness: over two zones, a player with two events on the same target
   counts one kill and comes before a player with less damage *)
C17_Witness ==
    /\ api.op = "get_damage_by_zones"
    /\ api.arg.ids = {1, 2}
    /\ Len(api.result) = 2
    /\ api.result[1].kills = 1
    /\ Cardinality({e \in StoredEvents : e.player_id = api.result[1].player_id}) = 2
    /\ api.result[1].first_hit < api.result[1].last_hit
    /\ api.result[1].total_dmg > api.result[2].total_dmg

(* the events get_damage_in_time_range is to aggregate *)
InRange(start_time, end_time, character_name) ==
    {e \in StoredEvents :
        /\ start_time <= e.timestamp /\ e.timestamp <= end_time
        /\ character_name # NoName => e.character_name = character_name}

(* C18: get_damage_in_time_range aggregates the stored events with
   start <= timestamp <= end, of the given character if one is given, and no
   other event. *)
C18_TimeRangeInclusive ==
    api.op = "get_damage_in_time_range"
      => AggregatesOf(InRange(api.arg.start, api.arg.end, api.arg.character))

(* C18 witness: of three stored events the one at the end of the range is
   in the result, one before the start and one of another character are not *)
C18_Witness ==
    /\ api.op = "get_damage_in_time_range"
    /\ api.arg.character = "Ann"
    /\ api.arg.start > Midnight + 2
    /\ Len(data_store.events_list) = 3
    /\ \E e \in StoredEvents : e.timestamp = api.arg.end /\ e.character_name = "Ann"
    /\ \E e \in StoredEvents : e.timestamp < api.arg.start /\ e.character_name = "Ann"
    /\ \E e \in StoredEvents : e.timestamp = api.arg.end /\ e.character_name = "Bea"
    /\ Len(api.result) = 1

----------------------------------------------------------------------------
(* The six-line log, checked under SpecScenario *)

(* the six lines as written, each with its [HH:MM:SS] prefix, have been read *)
ScenarioRead ==
    /\ file \in {ScenarioLines(zone_text, TRUE) : zone_text \in ZoneTexts}
    /\ file_position = Len(file)

(* the stored events on target npc_id by the player of that name *)
EventsOf(npc_id, name) ==
    {e \in StoredEvents :
        e.npc_id = npc_id /\ get_original_name(data_store, e.player_id) = name}

(* C19 as stated: after the six lines the store holds one zone instance
   AreaForest, one event of Alice (60) and one of Bob (30) on target 42 and
   one of Alice (100) on target 43; the zone query answers Alice 160 with 2
   kills before Bob 30 with 1 kill; the combat window of the zone goes from
   10:00:05 to 10:00:10. *)
C19_ScenarioOutcome ==
    ScenarioRead
      => /\ Len(data_store.zones_list) = 1
         /\ data_store.zones_list[1].name = "AreaForest"
         /\ Len(data_store.events_list) = 3
         /\ \E e \in EventsOf(42, "Alice") : e.health_dmg + e.armor_dmg = 60
         /\ \E e \in EventsOf(42, "Bob") : e.health_dmg + e.armor_dmg = 30
         /\ \E e \in EventsOf(43, "Alice") : e.health_dmg + e.armor_dmg = 100
         /\ api.arg.ids = {data_store.zones_list[1].zone_id}
              => /\ api.op = "get_damage_by_zone"
                    => /\ Len(api.result) = 2
                       /\ api.result[1].original_name = "Alice"
                       /\ api.result[1].total_dmg = 160 /\ api.result[1].kills = 2
                       /\ api.result[2].original_name = "Bob"
                       /\ api.result[2].total_dmg = 30 /\ api.result[2].kills = 1
                 /\ api.op = "get_zone_combat_times"
                    => /\ api.result[1] = Midnight + TenOClock + 5
                       /\ api.result[2] = Midnight + TenOClock + 10

----------------------------------------------------------------------------
(* group_damage_by_alias, checked under SpecGroup *)

(* the rows of the input that went into the merged row g *)
Constituents(g) ==
    {api.arg.data[k] : k \in {k \in 1..Len(api.arg.data) :
                                 api.arg.data[k].display_name = g.display_name}}

(* C20 as stated: whatever the order of the input rows, the output is the
   same list of merged rows, in the same order and with the same fields, and
   the health, armor and total damage of a merged row are the sums over the
   rows that went into it. *)
C20_GroupingOrderInvariant ==
    api.op = "group_damage_by_alias"
      => /\ \A order \in Orders(1..Len(api.arg.data)) :
               group_damage_by_alias(permuted(api.arg.data, order)) = api.result
         /\ \A g \in Results :
               /\ g.health_dmg = SumOf(Constituents(g), "health_dmg")
               /\ g.armor_dmg = SumOf(Constituents(g), "armor_dmg")
               /\ g.total_dmg = SumOf(Constituents(g), "total_dmg")

(* a merged row with its ids and names as sets *)
Unordered(g) ==
    [g EXCEPT !.player_ids = {g.player_ids[k] : k \in 1..Len(g.player_ids)},
              !.original_names = {g.original_names[k] : k \in 1..Len(g.original_names)}]

MergedRows(result) == {Unordered(result[k]) : k \in 1..Len(result)}

(* C20 amended: whatever the order of the input rows, the output holds the
   same merged rows, with the same sums, kills, first and last hit and the
   same ids and names, one per display name and in descending order of total
   damage, and the health, armor and total damage of a merged row are the
   sums over the rows that went into it; only the order of merged rows of
   equal total and the order of the ids and names inside a merged row follow
   the input. *)
C20_GroupingInvariantUpToTies ==
    api.op = "group_damage_by_alias"
      => /\ \A order \in Orders(1..Len(api.arg.data)) :
               /\ MergedRows(group_damage_by_alias(permuted(api.arg.data, order)))
                     = MergedRows(api.result)
               /\ Len(group_damage_by_alias(permuted(api.arg.data, order)))
                     = Len(api.result)
         /\ Cardinality({g.display_name : g \in Results}) = Len(api.result)
         /\ is_descending(api.result)
         /\ \A g \in Results :
               /\ g.health_dmg = SumOf(Constituents(g), "health_dmg")
               /\ g.armor_dmg = SumOf(Constituents(g), "armor_dmg")
               /\ g.total_dmg = SumOf(Constituents(g), "total_dmg")

(* C20 witness: Al and Bo, merged under their alias, have the total of Cy;
   another order of the three rows gives another list *)
C20_Witness ==
    /\ api.op = "group_damage_by_alias"
    /\ Len(api.arg.data) = 3
    /\ Len(api.result) = 2
    /\ api.result[1].total_dmg = api.result[2].total_dmg
    /\ \E g \in Results : Len(g.player_ids) = 2
    /\ \E order \in Orders(1..Len(api.arg.data)) :
          group_damage_by_alias(permuted(api.arg.data, order)) # api.result

(* the first and last hits of the rows that are not None *)
HitsOf(rows, col) == {d[col] : d \in rows} \ {NoTime}

(* C21: the output has one row per display name of the input; a merged row
   has the sum of its members' kills, the earliest of their first hits and
   the latest of their last hits that are not None, and the ids of all its
   members; the rows come in descending order of total damage. *)
C21_OneRowPerDisplayName ==
    api.op = "group_damage_by_alias"
      => /\ {g.display_name : g \in Results}
               = {api.arg.data[k].display_name : k \in 1..Len(api.arg.data)}
         /\ Cardinality({g.display_name : g \in Results}) = Len(api.result)
         /\ \A g \in Results :
               /\ g.kills = SumOf(Constituents(g), "kills")
               /\ g.first_hit = IF HitsOf(Constituents(g), "first_hit") = {} THEN NoTime
                                ELSE Min(HitsOf(Constituents(g), "first_hit"))
               /\ g.last_hit = IF HitsOf(Constituents(g), "last_hit") = {} THEN NoTime
                               ELSE Max(HitsOf(Constituents(g), "last_hit"))
               /\ Len(g.player_ids) = Cardinality(Constituents(g))
               /\ {g.player_ids[k] : k \in 1..Len(g.player_ids)}
                     = {d.player_id : d \in Constituents(g)}
         /\ \A k \in 1..(Len(api.result) - 1) :
               api.result[k].total_dmg >= api.result[k + 1].total_dmg

(* C21 witness: Al, Bo and Gus, who has no hit times, share the alias Ace and
   are one row *)
C21_Witness ==
    /\ api.op = "group_damage_by_alias"
    /\ Len(api.arg.data) = 3
    /\ Len(api.result) = 1
    /\ api.result[1].display_name = "Ace"
    /\ Len(api.result[1].player_ids) = 3
    /\ api.result[1].kills = 3
    /\ api.result[1].first_hit = Midnight + 2
    /\ api.result[1].last_hit = Midnight + 32

----------------------------------------------------------------------------
(* The streaming parser and an import, reading lines some of which carry a
   time that is none, within the budget of lines *)

IngestLines ==
    {ZoneLine(2, "AreaA"), ZoneLine(BadTime, "AreaB"),
     CorpseLine(2, <<42, "Wolf">>), CorpseLine(BadTime, <<43, "Bear">>),
     DamageLine(NoTime, "Al", 5, Absent)}

MonitorReadsIngest == \E l \in IngestLines : MonitorLine(l)
WorkerReadsIngest == WorkerReads(IngestLines)

NextIngest ==
    \/ WithinBudget /\ MonitorReadsIngest
    \/ LoadFile
    \/ WorkerStart
    \/ WithinBudget /\ WorkerReadsIngest
    \/ WorkerEndOfFile
    \/ WorkerFinish

SpecIngest == Init /\ [][NextIngest]_vars

----------------------------------------------------------------------------
(* An import on the way to its first flush at BATCH_SIZE: the worker has read
   a corpse line and BATCH_SIZE - 2 damage reports of one player, all of them
   buffered; file holds the lines it reads from there on *)

ThresholdLines ==
    {CorpseLine(32, <<43, "Bear">>), DamageLine(NoTime, "Al", 5, Absent),
     DamageLine(NoTime, "Bo", 0, 3)}

AfterCorpse ==
    parse_line(start_batch_mode(set_log_date(NewParser(Today), LogDay), {}),
               EmptyStore, CorpseLine(2, <<42, "Wolf">>), Now, <<>>).parser

AlmostFull ==
    [AfterCorpse EXCEPT !.pending_events =
        [k \in 1..(BATCH_SIZE - 2) |->
            damage_event(AfterCorpse, DAMAGE_PATTERN(DamageLine(NoTime, "Al", 5, Absent)))]]

InitThreshold ==
    /\ data_store = EmptyStore
    /\ parser = set_log_date(NewParser(Today), Today)
    /\ line = OtherLine
    /\ file_position = 0
    /\ loader = [IdleLoader EXCEPT !.pc = "loop", !.runs = 1, !.parser = AlmostFull,
                                   !.line_count = BATCH_SIZE - 1,
                                   !.damage_count = BATCH_SIZE - 2]
    /\ file = <<>>
    /\ api = NoCall
    /\ gui = [NoGui EXCEPT !.loading_active = TRUE]

WorkerReadsThreshold == WorkerReads(ThresholdLines)

NextThreshold == WorkerReadsThreshold \/ WorkerEndOfFile \/ WorkerFinish

SpecThreshold == InitThreshold /\ [][NextThreshold]_vars

----------------------------------------------------------------------------
(* Properties of the GUI, its imports and its monitor, checked under SpecGui *)

LastCompletion == loader.completions[Len(loader.completions)]

(* C22: when the worker of an import finds cancel_requested set at the top of
   its loop, that step changes nothing in the store (nothing is flushed, no
   zone and no player is created), leaves the worker's buffer as it was, ends
   the worker, and delivers one completion that is not a success and carries
   the message "Cancelled", which is neither the message of a success nor
   that of an error *)
C22_CancelStopsTheWorker ==
    [][(loader.pc = "loop" /\ loader.cancel_requested /\ loader' # loader)
         => /\ data_store' = data_store
            /\ loader'.parser = loader.parser
            /\ loader'.pc = "done"
            /\ loader'.completions
                  = Append(loader.completions, loader'.completions[Len(loader'.completions)])
            /\ ~loader'.completions[Len(loader'.completions)].success
            /\ loader'.completions[Len(loader'.completions)].message = "Cancelled"
            /\ "Cancelled" \notin {"Loaded", "Error"}]_vars

(* a cancelled import that had buffered an event, and stored nothing *)
C22_Witness ==
    /\ loader.pc = "done"
    /\ Len(loader.completions) = 1
    /\ LastCompletion.message = "Cancelled"
    /\ Len(loader.parser.pending_events) = 1
    /\ Len(data_store.events_list) = 0
    /\ Len(data_store.players_list) = 0

(* the workers started and not yet returned *)
Workers == loader.runs - Len(loader.completions)

(* C23: a worker thread is started only by a request that finds no load
   active, that is, none started whose completion _on_load_complete has not
   yet handled; a request made while a load is active starts nothing and
   leaves the loader as it is, so there is never more than one worker *)
C23_OneLoadAtATime ==
    [][/\ loader'.runs # loader.runs
            => /\ ~gui.loading_active
               /\ gui'.loading_active
               /\ loader.pc \in {"idle", "done"}
               /\ loader'.runs = loader.runs + 1
       /\ (gui.loading_active /\ gui'.warned /\ ~gui.warned) => loader' = loader
       /\ Workers' <= 1]_vars

(* a request has been turned away while the first import was reading *)
C23_Witness ==
    /\ gui.warned
    /\ gui.loading_active
    /\ loader.runs = 1
    /\ loader.pc = "loop"
    /\ loader.pos = 1

(* C24: once stop() has returned for a monitor, its thread has no parse_line
   in progress or ahead of it, and it is not active next to the thread of the
   monitor started afterwards on the same parser *)
C24_StoppedMonitorIsGone ==
    /\ gui.old.pc # "parse"
    /\ ~(alive(gui.old) /\ alive(gui.monitor))

(* C26: a monitor thread that finds the file missing puts one 'error' item on
   the queue and ends without having parsed a line, and a worker that finds
   it missing delivers one completion, a failure with an error message and
   no lines, and ends; neither changes the store or a parser *)
C26_MissingFileIsOneError ==
    [][/\ gui'.errors # gui.errors
            => /\ gui'.errors = gui.errors + 1
               /\ \E s \in {"monitor", "old"} :
                     /\ gui[s].pc = "open"
                     /\ ~alive(gui'[s])
               /\ <<data_store, parser, file_position, loader>>'
                     = <<data_store, parser, file_position, loader>>
       /\ (loader.pc = "start" /\ loader'.pc = "done")
            => /\ loader' = [loader EXCEPT
                               !.pc = "done",
                               !.completions = Append(@, loader'.completions[Len(loader'.completions)])]
               /\ ~loader'.completions[Len(loader'.completions)].success
               /\ loader'.completions[Len(loader'.completions)].message = "Error"
               /\ loader'.completions[Len(loader'.completions)].lines = 0
               /\ <<data_store, parser, file_position, file>>'
                     = <<data_store, parser, file_position, file>>]_vars

(* an import has failed on the missing file, and so has the monitor started
   after it; nothing was read or stored *)
C26_Witness ==
    /\ gui.errors = 1
    /\ gui.monitor.pc = "ended"
    /\ loader.pc = "done"
    /\ Len(loader.completions) = 1
    /\ LastCompletion.message = "Error"
    /\ file_position = 0
    /\ file = <<>>
    /\ data_store = EmptyStore

----------------------------------------------------------------------------
(* Properties of both ingestion loops, checked under SpecIngest *)

(* parse_line raises on the line l: a zone or corpse line whose time prefix
   is no time of day *)
Raising(l) ==
    /\ ~CHARACTER_PATTERN(l)
    /\ (ZONE_PATTERN(l) /\ l.name \notin SKIP_ZONES) \/ CORPSE_PATTERN(l)
    /\ TIMESTAMP_PATTERN(l) # NoTime
    /\ strptime_raises(TIMESTAMP_PATTERN(l))

(* C25: an iteration of either loop on a line on which parse_line raises
   leaves the parser it was given and the store as they were, counts the line
   as read and stays in the loop, exactly as on an unrecognized line *)
C25_RaisingLineIsSkipped ==
    [][/\ (file_position' = file_position + 1 /\ Raising(line'))
            => /\ parser' = parser
               /\ data_store' = data_store
               /\ parse_line(parser, data_store, OtherLine, Now, <<>>)
                     = [parser |-> parser', ds |-> data_store', ret |-> FALSE]
       /\ (loader.pc = "loop" /\ loader'.pos = loader.pos + 1 /\ Raising(file'[loader'.pos]))
            => /\ data_store' = data_store
               /\ loader' = [loader EXCEPT !.pos = @ + 1, !.line_count = @ + 1]
               /\ parse_line(loader.parser, data_store, OtherLine, Now, <<>>)
                     = [parser |-> loader'.parser, ds |-> data_store', ret |-> FALSE]]_vars

(* an import has read a corpse line, a corpse line with the time 25:61:61 and
   a damage report, and has stored the report's event for the first corpse *)
C25_Witness ==
    /\ file = <<CorpseLine(2, <<42, "Wolf">>), CorpseLine(BadTime, <<43, "Bear">>),
                DamageLine(NoTime, "Al", 5, Absent)>>
    /\ loader.pc = "done"
    /\ loader.line_count = 3
    /\ Len(data_store.events_list) = 1
    /\ data_store.events_list[1].npc_id = 42

(* the keys of the events a step has appended to the store, in order *)
Inserted ==
    [k \in 1..(Len(data_store'.events_list) - Len(data_store.events_list)) |->
        event_key(data_store'.events_list[Len(data_store.events_list) + k])]

(* C29: the worker of an import starts with the keys of the events stored for
   the file's log date as its dedup set; no step of the worker takes a key
   out of the set; and the events a step of the worker appends to the store
   have keys that were not in the set and that differ from one another, and
   the set holds them afterwards.  So no event is inserted whose key is that
   of an event stored for the log date when the run started or inserted
   earlier in the run. *)
C29_NoDuplicateIsInserted ==
    [][/\ (loader.pc = "start" /\ loader'.pc = "loop")
            => loader'.parser.seen_events = get_all_existing_event_keys(data_store, LogDay)
       /\ (loader.pc \in {"loop", "finalize"} /\ loader' # loader)
            => /\ loader.parser.seen_events \subseteq loader'.parser.seen_events
               /\ \A k \in DOMAIN Inserted :
                     /\ Inserted[k] \notin loader.parser.seen_events
                     /\ Inserted[k] \in loader'.parser.seen_events
                     /\ \A i \in 1..(k - 1) : Inserted[i] # Inserted[k]]_vars

(* the second import of a file with one damage report has found the report's
   key among those stored by the first, and has inserted nothing *)
C29_Witness ==
    /\ file = <<CorpseLine(2, <<42, "Wolf">>), DamageLine(NoTime, "Al", 5, Absent)>>
    /\ loader.runs = 2
    /\ loader.pc = "done"
    /\ loader.line_count = 2
    /\ file_position = 0
    /\ Len(data_store.events_list) = 1
    /\ loader.parser.seen_events = {event_key(data_store.events_list[1])}

----------------------------------------------------------------------------
(* Properties of the order of the stored events, checked under Spec *)

(* C27: the events the monitor has stored carry increasing event ids in the
   order in which they were appended, which is the order of their lines, and
   timestamps that never decrease in that order *)
C27_StoredInTimeOrder ==
    \A i, j \in 1..Len(data_store.events_list) :
       i < j => /\ data_store.events_list[i].event_id < data_store.events_list[j].event_id
                /\ data_store.events_list[i].timestamp <= data_store.events_list[j].timestamp

----------------------------------------------------------------------------
(* Properties of the zones of an import, checked under SpecBatch *)

(* C28: while the first import of a file runs, and after it, the store holds
   one zone instance for each zone name and character: every transition of
   the file into that zone, also one that comes back from another zone, has
   been given the same zone id *)
C28_OneInstancePerZoneInFile ==
    loader.runs = 1
      => \A i, j \in 1..Len(data_store.zones_list) :
            (/\ data_store.zones_list[i].name = data_store.zones_list[j].name
             /\ data_store.zones_list[i].character_name
                   = data_store.zones_list[j].character_name)
              => data_store.zones_list[i].zone_id = data_store.zones_list[j].zone_id

----------------------------------------------------------------------------
(* Properties of the buffer of an import, checked under SpecThreshold *)

(* the buffer of the worker once the line of this step has been parsed and
   before any flush *)
Buffered ==
    IF loader'.pc = "loop" /\ loader'.damage_count = loader.damage_count + 1
    THEN Append(loader.parser.pending_events,
                damage_event(loader.parser, DAMAGE_PATTERN(file'[loader'.pos])))
    ELSE loader.parser.pending_events

(* the store ds holds an event with the key of the buffered event e *)
InStore(ds, e) ==
    \E i \in 1..Len(ds.events_list) :
       /\ ds.events_list[i].npc_id = e.npc_id
       /\ ds.events_list[i].player_id = player_name_to_id(ds, e.player_name)
       /\ ds.events_list[i].health_dmg = e.health_dmg
       /\ ds.events_list[i].armor_dmg = e.armor_dmg
       /\ e.zone_id # NoId => ds.events_list[i].zone_id = e.zone_id

(* C30: after every step of the worker of an import the buffer holds fewer
   than BATCH_SIZE events; the step either leaves the buffer with every event
   it held and the one just parsed, or has flushed it, and then every such
   event, or an event with the same key, is in the store; and after
   end_batch_mode the buffer is empty *)
C30_BufferIsBoundedAndFlushed ==
    [][(loader.pc \in {"loop", "finalize"} /\ loader' # loader)
         => /\ Len(loader'.parser.pending_events) < BATCH_SIZE
            /\ \/ loader'.parser.pending_events = Buffered
               \/ /\ loader'.parser.pending_events = <<>>
                  /\ \A k \in DOMAIN Buffered : InStore(data_store', Buffered[k])
            /\ loader'.pc = "done" => loader'.parser.pending_events = <<>>]_vars

(* the report that brought the buffer to BATCH_SIZE events has had it
   flushed: the two distinct events among them are stored, the buffer is
   empty and the worker is still reading *)
C30_Witness ==
    /\ file = <<DamageLine(NoTime, "Al", 5, Absent), DamageLine(NoTime, "Bo", 0, 3)>>
    /\ loader.pc = "loop"
    /\ loader.pos = 2
    /\ loader.line_count = BATCH_SIZE + 1
    /\ loader.parser.pending_events = <<>>
    /\ Len(data_store.events_list) = 2

(* C31: for every zone instance of the store, the wisdom of its summary is
   the sum of the amounts add_wisdom recorded for it, whether or not the
   zone has damage events, its kills are the distinct targets, and its total
   damage is the health and armor damage of its events. *)
ZoneIds == {data_store.zones_list[i].zone_id : i \in DOMAIN data_store.zones_list}

EventsOfZone(z) ==
    {i \in DOMAIN data_store.events_list : data_store.events_list[i].zone_id = z}

C31_ZoneStatsAddUp ==
    \A z \in ZoneIds :
        \E stats \in {get_zone_stats(data_store, z)} :
            /\ stats.wisdom
                 = column_sum(data_store.wisdom_list, wisdom_mask(data_store, z), "amount")
            /\ stats.kills = Cardinality(column(data_store.events_list, EventsOfZone(z), "npc_id"))
            /\ stats.total_dmg
                 = column_sum(data_store.events_list, EventsOfZone(z), "health_dmg")
                   + column_sum(data_store.events_list, EventsOfZone(z), "armor_dmg")

(* C33: the cached event view is never stale: it is empty or holds the rows
   of the current event list; an insert of an event, a batch insert of
   events and the clear leave it empty; it is built only by a query, and
   only from empty, so at most once between two mutations and once for a
   whole batch. *)
EventMutations == {"insert_damage_event", "insert_damage_events_batch", "clear_all_data"}

C33_CacheNeverStale ==
    /\ [](data_store.events_df_cache.built
            => data_store.events_df_cache.rows = data_store.events_list)
    /\ [][/\ (data_store'.events_list # data_store.events_list \/ api'.op = "clear_all_data")
            => (api'.op \in EventMutations /\ ~data_store'.events_df_cache.built)
          /\ (data_store'.events_df_cache # data_store.events_df_cache
                /\ data_store'.events_df_cache.built)
            => /\ api'.op \in DamageQueries
               /\ ~data_store.events_df_cache.built
               /\ data_store'.events_list = data_store.events_list]_vars

(* a query has built the cache from two stored events, the ids of which
   show that an earlier event was cleared away *)
C33_Witness ==
    /\ api.op = "get_damage_by_zone"
    /\ data_store.events_df_cache.built
    /\ Len(data_store.events_df_cache.rows) = 2
    /\ data_store.events_df_cache.rows[1].event_id = 2

(* C32: every store operation that reads or mutates the collections, the
   zone summary of the zone-runs view included, runs inside the store's one
   lock: no summary is read from the lists while another thread is inside
   the lock with a part of its batch appended and the rest still to come. *)
MidMutation ==
    /\ LockHeld
    /\ api.result # <<>>
    /\ Len(api.result) < Len(api.arg.data)

C32_NoReadMidMutation ==
    [][Len(gui'.zones_tree) > Len(gui.zones_tree) => ~MidMutation]_vars

(* C38: under every interleaving of an ingestion thread with a
   clear_all_data of the GUI thread, the player id of every stored event is
   the id of a player present in the store. *)
C38_PlayerOfEveryEventIsPresent ==
    \A i \in DOMAIN data_store.events_list :
        \E j \in DOMAIN data_store.players_list :
            data_store.players_list[j].player_id = data_store.events_list[i].player_id

(* C34: after any interleaving of insertions, zone and player creations and
   clear_all_data, no two players, no two zone instances and no two events
   share an id, and the id of every record a call adds is greater than every
   id of its kind the store held before the call. *)
Ids(list, id) == {list[i][id] : i \in DOMAIN list}

UniqueIds(list, id) == Cardinality(Ids(list, id)) = Len(list)

NewIdsAreGreater(old, new, id) ==
    \A n \in Ids(new, id) \ Ids(old, id) : \A o \in Ids(old, id) : o < n

C34_IdsUniqueAndIncreasing ==
    /\ [](/\ UniqueIds(data_store.players_list, "player_id")
          /\ UniqueIds(data_store.zones_list, "zone_id")
          /\ UniqueIds(data_store.events_list, "event_id"))
    /\ [][/\ NewIdsAreGreater(data_store.players_list, data_store'.players_list, "player_id")
          /\ NewIdsAreGreater(data_store.zones_list, data_store'.zones_list, "zone_id")
          /\ NewIdsAreGreater(data_store.events_list, data_store'.events_list, "event_id")]_vars

(* after a clear, a player and two events have been stored again: their ids
   go on from those given before the clear *)
C34_Witness ==
    /\ api.calls = MaxCalls
    /\ Len(data_store.players_list) = 1
    /\ data_store.players_list[1].player_id = 2
    /\ Len(data_store.events_list) = 2
    /\ data_store.events_list[1].event_id = 2
    /\ data_store.events_list[2].event_id = 3

(* C35: the event count delivered with a successful completion is the
   number of damage events the run inserted into the store: the growth of
   the event list since the completion of the run before, 0 for a second
   import of a file already imported. *)
StoredBefore(k) == IF k = 1 THEN 0 ELSE loader.completions[k - 1].stored

C35_CompletionCountsInserted ==
    \A k \in DOMAIN loader.completions :
        loader.completions[k].success
          => loader.completions[k].events
               = loader.completions[k].stored - StoredBefore(k)

(* C36: every closed zone instance has an exit timestamp that is not
   earlier than its entry timestamp, whatever streaming lines, batch
   imports and batch flushes have created and closed the instances. *)
C36_ExitNotBeforeEntry ==
    \A i \in DOMAIN data_store.zones_list :
        data_store.zones_list[i].left_time # NoTime
          => data_store.zones_list[i].left_time >= data_store.zones_list[i].entered_time

(* C37: the zone id of every stored event is the id of a zone instance
   present in the store, also for events streamed before any zone line and
   for events stored after a clear_all_data. *)
C37_ZoneOfEveryEventIsPresent ==
    \A i \in DOMAIN data_store.events_list :
        \E j \in DOMAIN data_store.zones_list :
            data_store.zones_list[j].zone_id = data_store.events_list[i].zone_id

(* C39: the character name of every stored event is the character name of
   the zone instance the event is stored under, also after a login line of
   another character that no zone transition follows. *)
C39_EventCharacterIsZoneCharacter ==
    \A i \in DOMAIN data_store.events_list :
        \A j \in DOMAIN data_store.zones_list :
            data_store.zones_list[j].zone_id = data_store.events_list[i].zone_id
              => data_store.zones_list[j].character_name
                   = data_store.events_list[i].character_name

(* C40: every batch load started with load_file on a finite file ends, and
   delivers exactly one completion, which is a success, an error or a
   cancellation and nothing else; a cancel() issued while lines remain to be
   read leads to the cancellation. *)
Loading == loader.pc \in {"start", "loop", "finalize"}

Outcomes == {<<TRUE, "Loaded">>, <<FALSE, "Error">>, <<FALSE, "Cancelled">>}

C40_LoadEndsWithOneOutcome ==
    /\ [](Len(loader.completions) = IF Loading THEN loader.runs - 1 ELSE loader.runs)
    /\ [](\A k \in DOMAIN loader.completions :
            <<loader.completions[k].success, loader.completions[k].message>> \in Outcomes)
    /\ (Loading ~> loader.pc = "done")
    /\ ((loader.cancel_requested /\ loader.pc = "loop")
           ~> (loader.pc = "done" /\ LastCompletion.message = "Cancelled"))
    /\ [][(loader.cancel_requested /\ loader.pc = "loop" /\ loader'.pc # "loop")
            => /\ loader'.pc = "done"
               /\ loader'.completions
                    = Append(loader.completions,
                             completion(FALSE, "Cancelled", 0, 0, data_store))]_vars

(* the second load has been cancelled with one of the two lines of its file
   read, after the first load ended in a success *)
C40_Witness ==
    /\ loader.pc = "done"
    /\ loader.runs = 2
    /\ Len(file) = 2
    /\ loader.pos = 1
    /\ Len(loader.completions) = 2
    /\ loader.completions[1].success
    /\ loader.completions[2].message = "Cancelled"

====
